---- MODULE Spec2Model ----
(***************************************************************************)
(* Session-gated resource access of the auth backend: the singleton        *)
(* database pool (lib/database.mjs), the access guards requireAuth and     *)
(* optionalAuth (middleware/auth.mjs), the rate limiters                   *)
(* (middleware/rate-limit.mjs) and the route handlers of                   *)
(* utils/api-handler.mjs over the user_profiles table.                     *)
(*                                                                         *)
(* Node runs every request on one thread: a handler runs without           *)
(* interruption from one await to the next, so each action below is one    *)
(* such run-to-await segment of one request.                               *)
(***************************************************************************)
EXTENDS Integers, Sequences, FiniteSets, TLC

\* ------------------------------------------------------------------ bounds
\* Latest value of the database clock NOW() the model explores.
MaxClock == 1
\* RATE_LIMIT_MAX_REQUESTS, the configured limit of the general limiter
\* (100 when unset), scaled down.
ApiMax == 6
\* Requests an address sends on after a limiter has started refusing it.
MaxOver == 1
\* Pools constructed before closePool() is called no more.
MaxPools == 2

\* --------------------------------------------------------------- constants
\* authRateLimiter: max requests per window.
AuthMax == 5
\* passwordResetRateLimiter: max requests per window.
ResetMax == 3

\* ------------------------------------------------------- JavaScript values
Undefined == "<undefined>"
Null == "<null>"

\* JavaScript truthiness of the values a JSON body field can hold here.
Truthy(v) == v \notin {Undefined, Null, ""}

\* The binding with only an absent field bound as null.
OrNullKeepsEmpty(v) == IF v = Undefined THEN Null ELSE v

\* The expression `v || null`.
OrNull(v) == IF Truthy(v) THEN v ELSE Null

\* SQL COALESCE(a, b).
Coalesce(a, b) == IF a # Null THEN a ELSE b

\* ------------------------------------------------------------ input domains
Principals == {"A", "B"}
Slots == {"r1", "r2"}
\* Client addresses (req.ip), the key of every limiter.
Clients == {"ip1", "ip2"}

\* Text is a sequence of words; the empty text is the falsy "" (an absent
\* `content` is falsy as well and is written the same way).
\* The session token the verifier reports for a principal.
SessionOf(p) == IF p = "A" THEN "sess-A" ELSE "sess-B"

\* What auth.api.getSession can do: resolve to null, to a session object
\* without a user, to a session of a principal, or reject with an error.
NoSession == [present |-> FALSE, user |-> Undefined, session |-> Undefined]
Verdicts ==
    {NoSession,
     [present |-> TRUE, user |-> Undefined, session |-> "sess-anon"]}
    \cup {[present |-> TRUE, user |-> p, session |-> SessionOf(p)] :
            p \in Principals}
VerifierErrors == {"connect ECONNREFUSED 10.0.0.5:5432"}

GetProfile == "GET /user/profile"
PutProfile == "PUT /user/profile"
PostPersonalize == "POST /personalize"
PostChat == "POST /chat"
OptionalRoute == "GET /optional"
ProtectedRoutes == {GetProfile, PutProfile, PostPersonalize, PostChat}
SignIn == "POST /auth/sign-in/email"
SignUp == "POST /auth/sign-up/email"
AuthSession == "GET /auth/session"
SignOut == "POST /auth/sign-out"
ForgetPassword == "POST /auth/forget-password"
Health == "GET /health"
\* router.all('/auth/*') and router.all('/auth'): the Better Auth handler.
AuthRoutes == {SignIn, SignUp, AuthSession, SignOut, ForgetPassword}

EmptyBody ==
    [userId |-> Undefined, skillLevel |-> Undefined,
     softwareBackground |-> Undefined, hardwareBackground |-> Undefined,
     learningGoal |-> Undefined, chapterId |-> Undefined,
     content |-> <<>>, message |-> Undefined,
     skill_level |-> Undefined, software_background |-> Undefined,
     hardware_background |-> Undefined, learning_goal |-> Undefined]

\* Request bodies sent to PUT /user/profile: no field; the other-user
\* example; single fields; fields sent empty or null; an empty userId.
PutBodies ==
    {EmptyBody,
     [EmptyBody EXCEPT !.userId = "B", !.skillLevel = "x"],
     [EmptyBody EXCEPT !.learningGoal = "robotics"],
     [EmptyBody EXCEPT !.userId = "A", !.skillLevel = "advanced"],
     [EmptyBody EXCEPT !.skillLevel = "", !.learningGoal = "robotics"],
     [EmptyBody EXCEPT !.userId = "", !.hardwareBackground = "arduino"],
     [EmptyBody EXCEPT !.softwareBackground = Null, !.skillLevel = ""]}

PersonalizeBodies ==
    {EmptyBody,
     [EmptyBody EXCEPT !.chapterId = "ch1",
                       !.content = <<"This", "concept", "is", "important">>]}

ChatBodies == {EmptyBody, [EmptyBody EXCEPT !.message = "hello"]}

BodiesOf(route) ==
    CASE route = PutProfile -> PutBodies
      [] route = PostPersonalize -> PersonalizeBodies
      [] route = PostChat -> ChatBodies
      [] OTHER -> {EmptyBody}

\* The bodies of the guard specification: per route one body the handler
\* rejects and one it accepts.
GuardBodiesOf(route) ==
    IF route = PutProfile
       THEN {EmptyBody, [EmptyBody EXCEPT !.userId = "B", !.skillLevel = "x"]}
       ELSE BodiesOf(route)

\* ------------------------------------------------------------------- state
VARIABLES
    req,       \* per request slot: the request, its position and its outcome
               \* (ghosts: verdict, afterFault, the counters, the table
               \* `before` the handler's work and `after` its write, the
               \* hit number strictHit the strict limiter gave the request,
               \* its number ord among the window's requests to its route
               \* (sign-in, password reset), the counters `touched` by its
               \* pass through the limiters, and the limiters it was the
               \* first to reach after their window ran out on a refusal)
    table,     \* user_profiles: a set of rows
    now,       \* the database clock read by NOW()
    pool,      \* lib/database.mjs `let pool`: 0 is null, n the n-th Pool
    env,              \* process.env: the keys the code reads
    boot,             \* the startup script: its position and what
                      \* validateEnv() collected and threw
    poolsConstructed, \* ghost: number of `new Pool` executed by getPool
    handles,          \* ghost: the handles getPool() has returned
    connQueue, \* the requests whose query() is at pool.query: the first has
               \* the pool's one connection (max: 1), the others wait for it
    apiHits,   \* apiRateLimiter's store: hits per address in its window
    authHits,  \* authRateLimiter's store: hits per address in its window
    signIns,   \* ghost: sign-in requests per address in the strict window
    resetsSeen, \* ghost: password-reset requests per address in the hour
    elapsed    \* ghost: <<limiter, address>> whose window ran out after a
               \* refusal, the address not having reached the limiter since

vars == <<req, table, now, pool, env, boot, poolsConstructed, handles,
          connQueue,
          apiHits, authHits, signIns, resetsSeen, elapsed>>
limiterVars == <<apiHits, authHits, signIns, resetsSeen, elapsed>>

NoResponse ==
    [status |-> 0, error |-> "", message |-> "", profile |-> {},
     content |-> <<>>, retryAfter |-> "", stack |-> Undefined]

\* An Error object on its way to next(err): message, status (0: the
\* property is absent) and stack.
NoError == [message |-> "", status |-> 0, stack |-> ""]
CorsError ==
    [message |-> "Not allowed by CORS", status |-> 0,
     stack |-> "Error: Not allowed by CORS at corsOriginValidator"]
BodyParseError ==
    [message |-> "Unexpected end of JSON input", status |-> 400,
     stack |-> "SyntaxError: Unexpected end of JSON input at JSON.parse"]

\* What the verifier gave the guard of a request; ghost.
Pending == [kind |-> "pending", v |-> NoSession, e |-> ""]
Resolved(v) == [kind |-> "value", v |-> v, e |-> ""]
Rejected(e) == [kind |-> "error", v |-> NoSession, e |-> e]

Idle ==
    [pc |-> "idle", route |-> "", ip |-> "", body |-> EmptyBody,
     afterFault |-> FALSE, strictHit |-> 0, ord |-> 0,
     touched |-> {}, firstAfter |-> {},
     verdict |-> Pending, user |-> Undefined, session |-> Undefined,
     nextCalls |-> 0, sent |-> 0, res |-> NoResponse,
     handlerRuns |-> 0, queries |-> 0, writes |-> 0, log |-> {},
     before |-> {}, after |-> {}, heldOnFail |-> FALSE,
     origin |-> "", malformed |-> FALSE, err |-> NoError,
     returned |-> Undefined, ownPool |-> FALSE, stages |-> {},
     usedEnded |-> FALSE, forwardedHost |-> "", referer |-> "",
     trusted |-> {}, passes |-> FALSE]

\* ------------------------------------------------ lib/env-validator.mjs
\* The least length the validator accepts for BETTER_AUTH_SECRET.
MinSecretLength == 32

\* The names of requiredEnvVars, in the order of the array.
requiredEnvVars ==
    <<"DATABASE_URL", "BETTER_AUTH_SECRET", "BETTER_AUTH_URL", "FRONTEND_URL">>

\* value.startsWith(prefix) for the connection strings of the model.
StartsWith(value, prefix) ==
    \/ value = "postgres://db" /\ prefix = "postgres://"
    \/ value = "postgresql://db" /\ prefix = "postgresql://"

\* value.length for the secrets of the model.
StrLength(value) ==
    CASE value = "0123456789abcdef0123456789abcdef" -> 32
      [] value = "0123456789abcdef0123456789abcde" -> 31
      [] value = "too-short-secret" -> 16
      [] OTHER -> 0

\* `new URL(value)` does not throw, for the URLs of the model.
IsUrl(value) ==
    value \in {"https://auth.example", "https://book.example",
               "http://localhost:8000", "http://localhost:3002"}

\* envVar.validator(value): the error text, or null.
Validator(name, value) ==
    CASE name = "DATABASE_URL" ->
           IF ~StartsWith(value, "postgres://")
                /\ ~StartsWith(value, "postgresql://")
              THEN "Must be a valid PostgreSQL connection string"
              ELSE Null
      [] name = "BETTER_AUTH_SECRET" ->
           IF StrLength(value) < MinSecretLength
              THEN "Must be at least 32 characters long for security"
              ELSE Null
      [] OTHER -> IF IsUrl(value) THEN Null ELSE "Must be a valid URL"

\* What one pass of the loop over requiredEnvVars pushes for `name`.
EntryOf(e, name) ==
    IF ~Truthy(e[name])
       THEN <<[name |-> name, kind |-> "is required"]>>
       ELSE IF Validator(name, e[name]) # Null
               THEN <<[name |-> name, kind |-> "is invalid"]>>
               ELSE <<>>

\* The loop leaving at its first error.
RECURSIVE CollectFirstOnly(_, _)
CollectFirstOnly(e, i) ==
    IF i > Len(requiredEnvVars)
       THEN <<>>
       ELSE IF EntryOf(e, requiredEnvVars[i]) # <<>>
               THEN EntryOf(e, requiredEnvVars[i])
               ELSE CollectFirstOnly(e, i + 1)

\* `errors` after the loop over requiredEnvVars from index i on.
RECURSIVE CollectErrors(_, _)
CollectErrors(e, i) ==
    IF i > Len(requiredEnvVars)
       THEN <<>>
       ELSE EntryOf(e, requiredEnvVars[i]) \o CollectErrors(e, i + 1)

\* process.env after the loop over optionalEnvVars: of the keys the model
\* holds, NODE_ENV has a default (ALLOWED_ORIGINS has default null).
WithDefaults(e) ==
    [e EXCEPT !.NODE_ENV = IF Truthy(@) THEN @ ELSE "development"]

\* node starts on server.mjs: none of its modules is evaluated yet.
Loading ==
    [pc |-> "load", errors |-> <<>>, thrown |-> FALSE, plugins |-> {},
     log |-> {}, exitTimer |-> FALSE, ended |-> {}, closing |-> 0]

\* The startup script before validateEnv().
Starting == [Loading EXCEPT !.pc = "start"]

\* The startup script past validateEnv(), the app exported and listening.
\* plugins: the ids of the plugins the auth instance was built with
\* (`plugins: []` in lib/auth.mjs); log: what the process-level handlers of
\* setupErrorHandlers() logged; exitTimer: their setTimeout is pending;
\* ended: the pools on which end() was called; closing: the pool whose end()
\* a closePool() call is awaiting (0: none).
Serving == [Loading EXCEPT !.pc = "serving"]

\* process.env of a deployed instance: every required key valid.
DeployedEnv ==
    [DATABASE_URL |-> "postgresql://db",
     BETTER_AUTH_SECRET |-> "0123456789abcdef0123456789abcdef",
     BETTER_AUTH_URL |-> "https://auth.example",
     FRONTEND_URL |-> "https://book.example",
     NODE_ENV |-> "production", ALLOWED_ORIGINS |-> Undefined]

\* `process.env.DATABASE_URL` as getPool() tests it: set and not empty.
DATABASE_URL == Truthy(env.DATABASE_URL)

Init ==
    /\ req = [r \in Slots |-> Idle]
    /\ table = {}
    /\ now = 0
    /\ pool = 0
    /\ env = DeployedEnv
    /\ boot = Serving
    /\ poolsConstructed = 0
    /\ handles = {}
    /\ connQueue = <<>>
    /\ apiHits = [c \in Clients |-> 0]
    /\ authHits = [c \in Clients |-> 0]
    /\ signIns = [c \in Clients |-> 0]
    /\ resetsSeen = [c \in Clients |-> 0]
    /\ elapsed = {}

\* ------------------------------------------------------------ log entries
LogEntry(level, msg, detail) == [level |-> level, msg |-> msg, detail |-> detail]

\* -------------------------------------------------- lib/database.mjs: pool
\* getPool without its memo test: a Pool per call.
PoolIsNullAlways == TRUE

\* The test `!pool` of getPool.
PoolIsNull == pool = 0

\* getPool() throws: no pool yet and no connection string.
GetPoolThrowsNever == FALSE

GetPoolThrows == PoolIsNull /\ ~DATABASE_URL

\* getPool() when it does not throw: constructs the Pool on first use,
\* memoizes it in `pool`, returns `pool`.
getPool ==
    /\ ~GetPoolThrows
    /\ IF PoolIsNull
          THEN /\ pool' = poolsConstructed + 1
               /\ poolsConstructed' = poolsConstructed + 1
          ELSE UNCHANGED <<pool, poolsConstructed>>
    /\ handles' = handles \cup {pool'}

\* closePool() up to its await: `if (pool)` and pool.end() called; the
\* module variable still refers to the pool.
ClosePoolStart ==
    /\ ~PoolIsNull
    /\ boot.closing = 0
    /\ poolsConstructed <= MaxPools
    /\ boot' = [boot EXCEPT !.ended = @ \cup {pool}, !.closing = pool]
    /\ UNCHANGED <<req, table, now, pool, env, poolsConstructed, handles,
                   connQueue, limiterVars>>

\* closePool() after its await: `pool = null` and the log line.
ClosePoolEnd ==
    /\ boot.closing # 0
    /\ pool' = 0
    /\ boot' = [boot EXCEPT !.closing = 0,
                            !.log = @ \cup {LogEntry("info",
                                               "Database pool closed", "")}]
    /\ UNCHANGED <<req, table, now, env, poolsConstructed, handles,
                   connQueue, limiterVars>>

\* -------------------------------------------- responses sent by the code
Json(status, error, message) ==
    [NoResponse EXCEPT !.status = status, !.error = error, !.message = message]

UnauthorizedBody ==
    Json(401, "Unauthorized", "You must be logged in to access this resource")

\* The catch block sending error.message to the client.
AuthErrorBodyLeaks(e) == Json(500, "Authentication failed", e)

\* The body requireAuth sends when the verifier threw `e`.
AuthErrorBody(e) ==
    Json(500, "Authentication failed",
         "An error occurred while verifying your session")

\* The 500 body of each handler's catch block.
HandlerErrorBody(route) ==
    CASE route = GetProfile ->
           Json(500, "Failed to fetch profile",
                "An error occurred while retrieving your profile")
      [] route = PutProfile ->
           Json(500, "Failed to update profile",
                "An error occurred while updating your profile")
      [] route = PostPersonalize ->
           Json(500, "Personalization failed",
                "An error occurred while personalizing content")
      [] OTHER ->
           Json(500, "Chat failed",
                "An error occurred while processing your message")

HandlerErrorLog(route) ==
    CASE route = GetProfile -> "Profile fetch error"
      [] route = PutProfile -> "Profile update error"
      [] route = PostPersonalize -> "Personalization error"
      [] OTHER -> "Chat error"

\* res.status(..).json(..): one more response sent on request q.
Send(q, body) == [q EXCEPT !.sent = @ + 1, !.res = body, !.pc = "done"]

Logged(q, entry) == [q EXCEPT !.log = @ \cup {entry}]

\* ------------------------------------------------ middleware/auth.mjs
\* The guard testing `!session` alone.
AuthRejectsSessionOnly(v) == ~v.present

\* The test `!session || !session.user` of requireAuth.
AuthRejects(v) == ~v.present \/ v.user = Undefined

\* A request is matched by a route whose guard is about to call
\* auth.api.getSession (afterFault, a ghost: it arrives after a guard has
\* caught a verifier exception).
RouteMatch(r, route, body) ==
    /\ boot.pc = "serving"
    /\ req[r].pc = "idle"
    /\ req' = [req EXCEPT ![r] =
                 [Idle EXCEPT !.pc = "verify", !.route = route, !.body = body,
                              !.afterFault =
                                 \E s \in Slots : req[s].verdict.kind = "error"]]
    /\ UNCHANGED <<table, now, pool, env, boot, poolsConstructed, handles,
                 connQueue, limiterVars>>

\* requireAuth without the `return` in front of its 401: it answers and
\* goes on to next().
RequireAuthResultNoReturn(q, v) ==
    IF ~v.present \/ v.user = Undefined
       THEN [Send(q, UnauthorizedBody)
               EXCEPT !.user = v.user, !.session = v.session,
                      !.nextCalls = @ + 1, !.pc = "handler"]
       ELSE [q EXCEPT !.user = v.user, !.session = v.session,
                      !.nextCalls = @ + 1, !.pc = "handler"]

\* requireAuth resumes with the verifier's value v.
RequireAuthResult(q, v) ==
    IF AuthRejects(v)
       THEN Send(Logged(q, LogEntry("warn", "Unauthorized access attempt", "")),
                 UnauthorizedBody)
       ELSE [Logged(q, LogEntry("debug", "Authenticated request", v.user))
               EXCEPT !.user = v.user, !.session = v.session,
                      !.nextCalls = @ + 1, !.pc = "handler"]

RequireAuth(r, v) ==
    /\ req[r].pc = "verify"
    /\ req[r].route \in ProtectedRoutes
    /\ req' = [req EXCEPT ![r] =
                 RequireAuthResult([req[r] EXCEPT !.verdict = Resolved(v)], v)]
    /\ UNCHANGED <<table, now, pool, env, boot, poolsConstructed, handles,
                 connQueue, limiterVars>>

\* requireAuth resumes with the verifier's exception e: the catch block.
RequireAuthCatch(q, e) ==
    Send(Logged(q, LogEntry("error", "Authentication error", e)),
         AuthErrorBody(e))

RequireAuthThrows(r, e) ==
    /\ req[r].pc = "verify"
    /\ req[r].route \in ProtectedRoutes
    /\ req' = [req EXCEPT ![r] =
                 RequireAuthCatch([req[r] EXCEPT !.verdict = Rejected(e)], e)]
    /\ UNCHANGED <<table, now, pool, env, boot, poolsConstructed, handles,
                 connQueue, limiterVars>>

\* optionalAuth resumes with the verifier's value v.
OptionalAuthResult(q, v) ==
    IF v.present /\ v.user # Undefined
       THEN [q EXCEPT !.user = v.user, !.session = v.session,
                      !.nextCalls = @ + 1, !.pc = "handler"]
       ELSE [q EXCEPT !.nextCalls = @ + 1, !.pc = "handler"]

OptionalAuth(r, v) ==
    /\ req[r].pc = "verify"
    /\ req[r].route = OptionalRoute
    /\ req' = [req EXCEPT ![r] =
                 OptionalAuthResult([req[r] EXCEPT !.verdict = Resolved(v)], v)]
    /\ UNCHANGED <<table, now, pool, env, boot, poolsConstructed, handles,
                 connQueue, limiterVars>>

\* optionalAuth with requireAuth's catch block: it answers 500.
OptionalAuthCatchResponds(q, e) ==
    Send(Logged(q, LogEntry("debug", "Optional auth check failed", e)),
         Json(500, "Authentication failed",
              "An error occurred while verifying your session"))

\* optionalAuth resumes with the verifier's exception e: the catch block.
OptionalAuthCatch(q, e) ==
    [Logged(q, LogEntry("debug", "Optional auth check failed", e))
       EXCEPT !.nextCalls = @ + 1, !.pc = "handler"]

OptionalAuthThrows(r, e) ==
    /\ req[r].pc = "verify"
    /\ req[r].route = OptionalRoute
    /\ req' = [req EXCEPT ![r] =
                 OptionalAuthCatch([req[r] EXCEPT !.verdict = Rejected(e)], e)]
    /\ UNCHANGED <<table, now, pool, env, boot, poolsConstructed, handles,
                 connQueue, limiterVars>>

\* The handler behind optionalAuth in its usage note: it answers.
OptionalHandler(r) ==
    /\ req[r].pc = "handler"
    /\ req[r].route = OptionalRoute
    /\ req' = [req EXCEPT ![r] =
                 Send([@ EXCEPT !.handlerRuns = @ + 1], Json(200, "", ""))]
    /\ UNCHANGED <<table, now, pool, env, boot, poolsConstructed, handles,
                 connQueue, limiterVars>>

\* ---------------------------------------------- user_profiles statements
\* A time no row carries: the field is absent from the response.
NoTime == 0 - 1

\* SELECT * FROM user_profiles WHERE "userId" = $1
SelectByUser(tbl, userId) == {row \in tbl : row.userId = userId}

\* The upsert with SET col = EXCLUDED.col in place of COALESCE: a full
\* replace, as the sign-up hook of lib/auth-plugins.mjs writes it.
UpsertReplace(tbl, userId, p2, p3, p4, p5, t) ==
    {row \in tbl : row.userId # userId}
    \cup {[userId |-> userId, skill_level |-> p2,
            software_background |-> p3, hardware_background |-> p4,
            learning_goal |-> p5,
            createdAt |-> IF \E row \in tbl : row.userId = userId
                             THEN (CHOOSE row \in tbl : row.userId = userId).createdAt
                             ELSE t,
            updatedAt |-> t]}

\* INSERT ... VALUES ($1..$5, NOW(), NOW())
\* ON CONFLICT ("userId") DO UPDATE SET col = COALESCE($n, col), "updatedAt" = NOW()
Upsert(tbl, userId, p2, p3, p4, p5, t) ==
    IF SelectByUser(tbl, userId) = {}
       THEN tbl \cup {[userId |-> userId, skill_level |-> p2,
                       software_background |-> p3, hardware_background |-> p4,
                       learning_goal |-> p5, createdAt |-> t, updatedAt |-> t]}
       ELSE {IF row.userId = userId
                THEN [row EXCEPT !.skill_level = Coalesce(p2, @),
                                 !.software_background = Coalesce(p3, @),
                                 !.hardware_background = Coalesce(p4, @),
                                 !.learning_goal = Coalesce(p5, @),
                                 !.updatedAt = t]
                ELSE row : row \in tbl}

DbErrors == {"Connection terminated due to connection timeout"}

\* The profile object of a response: GET carries createdAt, PUT does not.
ProfileView(row, withCreated) ==
    [userId |-> row.userId, skillLevel |-> row.skill_level,
     softwareBackground |-> row.software_background,
     hardwareBackground |-> row.hardware_background,
     learningGoal |-> row.learning_goal,
     createdAt |-> IF withCreated THEN row.createdAt ELSE NoTime,
     updatedAt |-> row.updatedAt]

\* ------------------------------------------ lib/database.mjs: query()
\* The queue of the pool without request r.
Without(queue, r) == SelectSeq(queue, LAMBDA s : s # r)

\* A query() whose pool.query gives the connection back only when the
\* statement succeeded.
ReleaseOnSuccessOnly(queue, r, ok) == IF ok THEN Without(queue, r) ELSE queue

\* pool.query of request r settles, fulfilled (ok) or rejected: the pool
\* takes the connection back, or drops r from those waiting for it.
ReleaseOnSettle(queue, r, ok) == Without(queue, r)

\* The statement of request r can be executed: r has the connection.
HasConnection(r) == connQueue # <<>> /\ Head(connQueue) = r

\* Request q of slot r at the moment its query rejects; heldOnFail records
\* whether the rejected query was the one running on the connection.
Settled(r, q) == [q EXCEPT !.heldOnFail = HasConnection(r)]

\* The handler of request q calls query(): getPool() and the statement is
\* handed to the pool, the handler awaits at `at`; or getPool() throws into
\* the handler's catch block.
CallQuery(r, q, at) ==
    IF GetPoolThrows
       THEN /\ req' = [req EXCEPT ![r] =
                  Send(Logged(q, LogEntry("error", HandlerErrorLog(q.route),
                              "DATABASE_URL environment variable is required")),
                       HandlerErrorBody(q.route))]
            /\ connQueue' = Without(connQueue, r)
            /\ UNCHANGED <<pool, poolsConstructed, handles>>
       ELSE /\ getPool
            /\ connQueue' = Append(Without(connQueue, r), r)
            /\ req' = [req EXCEPT ![r] =
                  [q EXCEPT !.queries = @ + 1, !.pc = at,
                            !.usedEnded = @ \/ pool' \in boot.ended]]

\* The awaited query() of request q rejected with e: query() logs, rethrows,
\* and the handler's catch block answers.
QueryFailed(q, e) ==
    Send(Logged(Logged(q, LogEntry("error", "Database query error", e)),
                LogEntry("error", HandlerErrorLog(q.route), e)),
         HandlerErrorBody(q.route))

\* ------------------------------------------- GET /user/profile
GetStart(r) ==
    /\ req[r].pc = "handler"
    /\ req[r].route = GetProfile
    /\ CallQuery(r, [req[r] EXCEPT !.handlerRuns = @ + 1, !.before = table],
                 "select")
    /\ UNCHANGED <<table, now, env, boot, limiterVars>>

NotFoundBody ==
    Json(404, "Profile not found",
         "User profile does not exist. Please complete your profile setup.")

\* The GET handler without its 404 branch.
GetRespondNo404(q, rows) ==
    Send(q, [Json(200, "", "") EXCEPT
               !.profile = {ProfileView(row, TRUE) : row \in rows}])

\* The handler after its SELECT returned `rows`.
GetRespond(q, rows) ==
    IF rows = {}
       THEN Send(q, NotFoundBody)
       ELSE Send(q, [Json(200, "", "") EXCEPT
                       !.profile = {ProfileView(CHOOSE row \in rows : TRUE, TRUE)}])

GetSelect(r, ok) ==
    /\ req[r].pc = "select"
    /\ req[r].route = GetProfile
    /\ ok => HasConnection(r)
    /\ connQueue' = ReleaseOnSettle(connQueue, r, ok)
    /\ req' = [req EXCEPT ![r] =
                 IF ok THEN GetRespond(@, SelectByUser(table, @.user))
                       ELSE QueryFailed(Settled(r, @), CHOOSE e \in DbErrors : TRUE)]
    /\ UNCHANGED <<table, now, pool, env, boot, poolsConstructed, handles,
                   limiterVars>>

\* ------------------------------------------- PUT /user/profile
\* The test `req.body.userId && req.body.userId !== userId`.
UserIdMismatch(body, userId) == Truthy(body.userId) /\ body.userId # userId

\* The handler without its validation.
NoFieldProvidedNever(body) == FALSE

\* The test `!skillLevel && !softwareBackground && !hardwareBackground &&
\* !learningGoal`.
NoFieldProvided(body) ==
    /\ ~Truthy(body.skillLevel)
    /\ ~Truthy(body.softwareBackground)
    /\ ~Truthy(body.hardwareBackground)
    /\ ~Truthy(body.learningGoal)

\* The owner taken from the body when the client sends one.
PutUserIdFromBody(q) == IF Truthy(q.body.userId) THEN q.body.userId ELSE q.user

\* The owner the handler writes and reads: `const userId = req.user.id`.
PutUserId(q) == q.user

ManipulationWarning(q) ==
    LogEntry("warn", "Attempted userId manipulation in profile update",
             q.body.userId)

InvalidPutBody ==
    Json(400, "Invalid request", "At least one profile field must be provided")

PutStart(r) ==
    /\ req[r].pc = "handler"
    /\ req[r].route = PutProfile
    /\ LET q0 == [req[r] EXCEPT !.handlerRuns = @ + 1, !.before = table]
           q1 == IF UserIdMismatch(q0.body, PutUserId(q0))
                    THEN Logged(q0, ManipulationWarning(q0))
                    ELSE q0
       IN  IF NoFieldProvided(q1.body)
              THEN /\ req' = [req EXCEPT ![r] = Send(q1, InvalidPutBody)]
                   /\ UNCHANGED <<pool, poolsConstructed, handles, connQueue>>
              ELSE CallQuery(r, q1, "upsert")
    /\ UNCHANGED <<table, now, env, boot, limiterVars>>

\* The table after the handler's upsert for request q, executed at time t.
PutWrite(tbl, q, t) ==
    Upsert(tbl, PutUserId(q), OrNull(q.body.skillLevel),
           OrNull(q.body.softwareBackground), OrNull(q.body.hardwareBackground),
           OrNull(q.body.learningGoal), t)

\* The database executes the upsert; the handler resumes, logs and issues
\* its SELECT, or lands in its catch block.
PutUpsert(r, ok) ==
    /\ req[r].pc = "upsert"
    /\ req[r].route = PutProfile
    /\ ok => HasConnection(r)
    /\ IF ok
          THEN /\ table' = PutWrite(table, req[r], now)
               /\ CallQuery(r, Logged([req[r] EXCEPT !.writes = @ + 1,
                                                      !.before = table,
                                                      !.after = table'],
                                      LogEntry("info", "Profile updated",
                                               PutUserId(req[r]))),
                            "select")
          ELSE /\ req' = [req EXCEPT ![r] =
                            QueryFailed(Settled(r, @), CHOOSE e \in DbErrors : TRUE)]
               /\ connQueue' = ReleaseOnSettle(connQueue, r, ok)
               /\ UNCHANGED <<table, pool, poolsConstructed, handles>>
    /\ UNCHANGED <<now, env, boot, limiterVars>>

\* The handler after its SELECT returned `rows`; rows[0] of an empty result
\* is undefined and reading its userId throws into the catch block.
PutRespond(q, rows) ==
    IF rows = {}
       THEN Send(Logged(q, LogEntry("error", HandlerErrorLog(q.route),
                                    "Cannot read properties of undefined")),
                 HandlerErrorBody(q.route))
       ELSE Send(q, [Json(200, "", "Profile updated successfully") EXCEPT
                       !.profile = {ProfileView(CHOOSE row \in rows : TRUE, FALSE)}])

PutSelect(r, ok) ==
    /\ req[r].pc = "select"
    /\ req[r].route = PutProfile
    /\ ok => HasConnection(r)
    /\ connQueue' = ReleaseOnSettle(connQueue, r, ok)
    /\ req' = [req EXCEPT ![r] =
                 IF ok THEN PutRespond(@, SelectByUser(table, PutUserId(@)))
                       ELSE QueryFailed(Settled(r, @), CHOOSE e \in DbErrors : TRUE)]
    /\ UNCHANGED <<table, now, pool, env, boot, poolsConstructed, handles,
                   limiterVars>>

\* ------------------------------------------- POST /personalize
\* s.toLowerCase().includes(kw) for the profile texts of the model.
LowerIncludes(s, kw) ==
    CASE s = "beginner developer" -> kw = "beginner"
      [] s = "Advanced engineer" -> kw = "advanced"
      [] s = "advanced beginner" -> kw \in {"advanced", "beginner"}
      [] s = "robotics" -> kw = "robotics"
      [] s = "AI research" -> kw = "ai"
      [] s = "ml for robotics" -> kw \in {"ml", "robotics"}
      [] OTHER -> FALSE

\* word.toLowerCase() for the words of the model's contents.
LowerWord(w) ==
    CASE w = "Concept" -> "concept"
      [] w = "METHOD" -> "method"
      [] OTHER -> w

\* The replace without the g flag: the first match only.
RECURSIVE AnnotateFirstOnly(_, _, _)
AnnotateFirstOnly(content, words, note) ==
    IF content = <<>>
       THEN <<>>
       ELSE IF LowerWord(Head(content)) \in words
               THEN <<Head(content), note>> \o Tail(content)
               ELSE <<Head(content)>>
                    \o AnnotateFirstOnly(Tail(content), words, note)

\* content.replace(/\b(w1|w2|...)\b/gi, '$1 ' + note), word by word.
RECURSIVE Annotate(_, _, _)
Annotate(content, words, note) ==
    IF content = <<>>
       THEN <<>>
       ELSE (IF LowerWord(Head(content)) \in words
                THEN <<Head(content), note>>
                ELSE <<Head(content)>>)
            \o Annotate(Tail(content), words, note)

\* The personalization a profile row applies to the content.
PersonalizeContent(content, row) ==
    LET sw == row.software_background
        goal == row.learning_goal
        annotated ==
            IF sw # Null /\ LowerIncludes(sw, "beginner")
               THEN Annotate(content, {"concept", "method", "approach"},
                             "(explained for beginners)")
               ELSE IF sw # Null /\ LowerIncludes(sw, "advanced")
                       THEN Annotate(content, {"example", "concept"},
                                     "(advanced details)")
                       ELSE content
    IN  IF goal # Null /\ (LowerIncludes(goal, "ai") \/ LowerIncludes(goal, "ml"))
           THEN annotated \o <<"*Tailored for AI/ML learners*">>
           ELSE IF goal # Null /\ LowerIncludes(goal, "robotics")
                   THEN annotated \o <<"*Tailored for robotics enthusiasts*">>
                   ELSE annotated

InvalidPersonalizeBody ==
    Json(400, "Invalid request", "Both chapterId and content are required")

PersonalizeStart(r) ==
    /\ req[r].pc = "handler"
    /\ req[r].route = PostPersonalize
    /\ LET q == [req[r] EXCEPT !.handlerRuns = @ + 1]
       IN  IF ~Truthy(q.body.chapterId) \/ q.body.content = <<>>
              THEN /\ req' = [req EXCEPT ![r] = Send(q, InvalidPersonalizeBody)]
                   /\ UNCHANGED <<pool, poolsConstructed, handles, connQueue>>
              ELSE CallQuery(r, [q EXCEPT !.before = table], "select")
    /\ UNCHANGED <<table, now, env, boot, limiterVars>>

\* The handler after its SELECT returned `rows`.
PersonalizeRespond(q, rows) ==
    Send(Logged([q EXCEPT !.after = table],
                LogEntry("info", "Content personalized", q.user)),
         [Json(200, "", "") EXCEPT
            !.content = IF rows = {}
                           THEN q.body.content
                           ELSE PersonalizeContent(q.body.content,
                                                   CHOOSE row \in rows : TRUE)])

PersonalizeSelect(r, ok) ==
    /\ req[r].pc = "select"
    /\ req[r].route = PostPersonalize
    /\ ok => HasConnection(r)
    /\ connQueue' = ReleaseOnSettle(connQueue, r, ok)
    /\ req' = [req EXCEPT ![r] =
                 IF ok THEN PersonalizeRespond(@, SelectByUser(table, @.user))
                       ELSE QueryFailed(Settled(r, @), CHOOSE e \in DbErrors : TRUE)]
    /\ UNCHANGED <<table, now, pool, env, boot, poolsConstructed, handles,
                   limiterVars>>

\* ------------------------------------------- POST /chat
InvalidChatBody == Json(400, "Invalid request", "Message is required")

ChatHandler(r) ==
    /\ req[r].pc = "handler"
    /\ req[r].route = PostChat
    /\ LET q == [req[r] EXCEPT !.handlerRuns = @ + 1]
       IN  req' = [req EXCEPT ![r] =
                     IF ~Truthy(q.body.message)
                        THEN Send(q, InvalidChatBody)
                        ELSE Send(Logged(q, LogEntry("info", "Chat request received",
                                                     q.user)),
                                  Json(200, "", "This is a placeholder response."))]
    /\ UNCHANGED <<table, now, pool, env, boot, poolsConstructed, handles,
                 connQueue, limiterVars>>

\* ------------------------------------------- middleware/rate-limit.mjs
\* The routes mounted behind authRateLimiter with only the sign-up route.
StrictRoutesSignUpOnly == {SignUp}

\* Every /auth route mounted behind authRateLimiter.
StrictRoutesAllAuth == AuthRoutes

\* The routes mounted behind authRateLimiter.
StrictRoutes == {SignIn, SignUp}

\* express-rate-limit: the request that makes the address's hits exceed
\* `max` is refused.
OverLimit(totalHits, max) == totalHits > max

\* handler of authRateLimiter.
AuthLimitBody ==
    [Json(429, "Too many authentication attempts",
          "Please try again after 15 minutes")
       EXCEPT !.retryAfter = "15 minutes"]

\* handler of apiRateLimiter.
ApiLimitBody ==
    Json(429, "Too many requests",
         "You have exceeded the rate limit. Please try again later.")

\* The key a limiter counts a request under: express-rate-limit's default,
\* the client address.  LimiterKeyShared is one counter for every address.
LimiterKeyShared(q) == "ip1"

LimiterKey(q) == q.ip

\* A request from address c enters the router (json body and cookies are
\* parsed).
Receive(r, c, route, body) ==
    /\ boot.pc = "serving"
    /\ req[r].pc = "idle"
    /\ apiHits[c] < ApiMax + MaxOver
    /\ route \in StrictRoutes => authHits[c] < AuthMax + MaxOver
    /\ route = SignIn => signIns[c] < AuthMax + MaxOver
    /\ route = ForgetPassword => resetsSeen[c] < ResetMax + MaxOver
    /\ req' = [req EXCEPT ![r] =
                 [Idle EXCEPT !.pc = "router", !.route = route, !.ip = c,
                              !.body = body]]
    /\ UNCHANGED <<table, now, pool, env, boot, poolsConstructed, handles,
                   connQueue, limiterVars>>

\* A general limiter whose handler answers 429 and lets the request go on
\* to the route.
ApiLimitHandlerThenNext(q) ==
    [Send(Logged(q, LogEntry("warn", "Rate limit exceeded for API endpoint",
                             q.ip)),
          ApiLimitBody) EXCEPT !.pc = "verify"]

\* The `handler` option of apiRateLimiter: logs and answers 429.
ApiLimitHandler(q) ==
    Send(Logged(q, LogEntry("warn", "Rate limit exceeded for API endpoint",
                            q.ip)),
         ApiLimitBody)

\* router.use(apiRateLimiter), then the route's own middleware: for the
\* routes behind it authRateLimiter.  One step: each limiter counts in
\* memory and nothing of another request runs in between.
RateLimit(r) ==
    /\ req[r].pc = "router"
    /\ LET q == req[r]
           c == LimiterKey(q)
           apiTotal == apiHits[c] + 1
           apiRefuses == OverLimit(apiTotal, ApiMax)
           strict == q.route \in StrictRoutes /\ ~apiRefuses
           authTotal == authHits[c] + 1
           counted == q.route = SignIn /\ (authHits[c] > 0 \/ strict)
           reset == q.route = ForgetPassword
           ordinal == IF counted THEN signIns[c] + 1
                      ELSE IF reset THEN resetsSeen[c] + 1 ELSE 0
           reached == {"api"} \cup (IF strict THEN {"auth"} ELSE {})
       IN  /\ apiHits' = [apiHits EXCEPT ![c] = apiTotal]
           /\ authHits' = IF strict THEN [authHits EXCEPT ![c] = authTotal]
                                    ELSE authHits
           /\ signIns' = IF counted THEN [signIns EXCEPT ![c] = ordinal]
                                    ELSE signIns
           /\ resetsSeen' = IF reset THEN [resetsSeen EXCEPT ![c] = ordinal]
                                     ELSE resetsSeen
           /\ elapsed' = elapsed \ {<<l, c>> : l \in reached}
           /\ LET g == [q EXCEPT
                         !.ord = ordinal,
                         !.strictHit = IF strict THEN authTotal ELSE 0,
                         !.firstAfter = {l \in reached : <<l, c>> \in elapsed},
                         !.touched =
                            {<<"api", d>> : d \in {d \in Clients :
                                                     apiHits'[d] # apiHits[d]}}
                            \cup {<<"auth", d>> : d \in {d \in Clients :
                                                     authHits'[d] # authHits[d]}}]
              IN  req' = [req EXCEPT ![r] =
                    CASE apiRefuses -> ApiLimitHandler(g)
                      [] strict /\ OverLimit(authTotal, AuthMax) ->
                           Send(Logged(g, LogEntry("warn",
                                  "Rate limit exceeded for auth endpoint", q.ip)),
                                AuthLimitBody)
                      [] q.route \in AuthRoutes -> [g EXCEPT !.pc = "auth"]
                      [] q.route = Health -> [g EXCEPT !.pc = "health"]
                      [] OTHER -> [g EXCEPT !.pc = "verify"]]
    /\ UNCHANGED <<table, now, pool, env, boot, poolsConstructed, handles, connQueue>>

\* ---------------------------------- lib/auth-plugins.mjs: userProfilePlugin
\* The after-hook's matcher, for an auth instance built with the plugin.
HookMatches(q) == "user-profile" \in boot.plugins /\ q.route = SignUp

\* The bodies of POST /auth/sign-up/email: without profile data, with some,
\* with a field sent empty.
SignUpBodies ==
    {EmptyBody,
     [EmptyBody EXCEPT !.skill_level = "beginner"],
     [EmptyBody EXCEPT !.software_background = "web developer",
                       !.learning_goal = ""]}

\* router.post('/auth/sign-up/email', authRateLimiter, betterAuthHandler): a
\* sign-up request past its limiters.
SignUpMatch(r, body) ==
    /\ boot.pc = "serving"
    /\ req[r].pc = "idle"
    /\ req' = [req EXCEPT ![r] =
                 [Idle EXCEPT !.pc = "auth", !.route = SignUp, !.body = body]]
    /\ UNCHANGED <<table, now, pool, env, boot, poolsConstructed, handles,
                   connQueue, limiterVars>>

\* Better Auth ran the sign-up endpoint: context.returned holds the new user
\* (returned) or none (the sign-up failed); the after-hook runs next.
SignUpEndpoint(r, returned) ==
    /\ req[r].pc = "auth"
    /\ HookMatches(req[r])
    /\ req' = [req EXCEPT ![r] =
                 [@ EXCEPT !.handlerRuns = @ + 1, !.returned = returned,
                           !.pc = "hook"]]
    /\ UNCHANGED <<table, now, pool, env, boot, poolsConstructed, handles,
                   connQueue, limiterVars>>

\* The response Better Auth sends once the hook returned the context.
SignUpResponse(q) ==
    IF q.returned = Undefined THEN Json(422, "USER_ALREADY_EXISTS", "")
                              ELSE Json(200, "", "")

\* The test `skill_level || software_background || hardware_background ||
\* learning_goal` of the hook.
HasProfileData(body) ==
    \/ Truthy(body.skill_level)
    \/ Truthy(body.software_background)
    \/ Truthy(body.hardware_background)
    \/ Truthy(body.learning_goal)

\* The hook reaches `const pool = new Pool({...})`.
HookOwnPool(q) == q.returned # Undefined /\ HasProfileData(q.body)

\* The after-hook up to its first await: without a user or without profile
\* data it returns the context; otherwise it constructs a Pool of its own
\* and awaits pool.query.
HookStart(r) ==
    /\ req[r].pc = "hook"
    /\ req' = [req EXCEPT ![r] =
                 IF HookOwnPool(@)
                    THEN [@ EXCEPT !.ownPool = TRUE, !.queries = @ + 1,
                                   !.pc = "hookQuery"]
                    ELSE Send(@, SignUpResponse(@))]
    /\ UNCHANGED <<table, now, pool, env, boot, poolsConstructed, handles,
                   connQueue, limiterVars>>

\* The hook's INSERT without its ON CONFLICT clause, on a table without the
\* UNIQUE constraint.
HookInsertOnly(tbl, q, t) ==
    tbl \cup {[userId |-> q.returned,
               skill_level |-> OrNull(q.body.skill_level),
               software_background |-> OrNull(q.body.software_background),
               hardware_background |-> OrNull(q.body.hardware_background),
               learning_goal |-> OrNull(q.body.learning_goal),
               createdAt |-> t, updatedAt |-> t]}

\* INSERT ... ON CONFLICT ("userId") DO UPDATE SET col = EXCLUDED.col of the
\* hook.
HookUpsert(tbl, q, t) ==
    UpsertReplace(tbl, q.returned, OrNull(q.body.skill_level),
                  OrNull(q.body.software_background),
                  OrNull(q.body.hardware_background),
                  OrNull(q.body.learning_goal), t)

\* The hook's pool.query settles.  Fulfilled: the row is written, the hook
\* awaits pool.end() and logs.  Rejected: the catch block logs and the Pool
\* is not ended.  Either way the context is returned and the sign-up is
\* answered.
HookQuery(r, ok) ==
    /\ req[r].pc = "hookQuery"
    /\ table' = IF ok THEN HookUpsert(table, req[r], now) ELSE table
    /\ req' = [req EXCEPT ![r] =
                 IF ok
                    THEN Send(Logged([@ EXCEPT !.writes = @ + 1,
                                               !.ownPool = FALSE,
                                               !.before = table,
                                               !.after = table'],
                                     LogEntry("info", "User profile created",
                                              @.returned)),
                              SignUpResponse(@))
                    ELSE Send(Logged(@, LogEntry("error",
                                                 "Error creating user profile",
                                                 CHOOSE e \in DbErrors : TRUE)),
                              SignUpResponse(@))]
    /\ UNCHANGED <<now, pool, env, boot, poolsConstructed, handles,
                   connQueue, limiterVars>>

\* betterAuthHandler answers: the credentials or the session cookie were
\* good (ok) or not.
BetterAuthHandler(r, ok) ==
    /\ req[r].pc = "auth"
    /\ ~HookMatches(req[r])
    /\ LET q == [req[r] EXCEPT !.handlerRuns = @ + 1]
       IN  req' = [req EXCEPT ![r] =
                     IF ok THEN Send(q, Json(200, "", ""))
                           ELSE Send(q, Json(401, "UNAUTHORIZED", ""))]
    /\ UNCHANGED <<table, now, pool, env, boot, poolsConstructed, handles,
                   connQueue, limiterVars>>

\* GET /health.
HealthCheck(r) ==
    /\ req[r].pc = "health"
    /\ req' = [req EXCEPT ![r] =
                 Send([req[r] EXCEPT !.handlerRuns = @ + 1], Json(200, "", "ok"))]
    /\ UNCHANGED <<table, now, pool, env, boot, poolsConstructed, handles,
                   connQueue, limiterVars>>

\* A window that runs out and leaves the hits as they were.
AuthWindowKeepsHits(c) ==
    /\ authHits[c] > 0
    /\ elapsed' = IF OverLimit(authHits[c], AuthMax)
                     THEN elapsed \cup {<<"auth", c>>} ELSE elapsed
    /\ signIns' = [signIns EXCEPT ![c] = 0]
    /\ UNCHANGED <<req, table, now, pool, env, boot, poolsConstructed,
                   handles, connQueue, apiHits, authHits, resetsSeen>>

\* The general limiter's window of address c runs out (windowMs after the
\* hit that opened it): the store drops the address's hits.
ApiWindowExpires(c) ==
    /\ apiHits[c] > 0
    /\ apiHits' = [apiHits EXCEPT ![c] = 0]
    /\ elapsed' = IF OverLimit(apiHits[c], ApiMax)
                     THEN elapsed \cup {<<"api", c>>} ELSE elapsed
    /\ UNCHANGED <<req, table, now, pool, env, boot, poolsConstructed,
                   handles, connQueue, authHits, signIns, resetsSeen>>

\* The strict limiter's window of address c runs out (15 minutes after
\* the hit that opened it): the store drops the address's hits.
AuthWindowExpires(c) ==
    /\ authHits[c] > 0
    /\ authHits' = [authHits EXCEPT ![c] = 0]
    /\ elapsed' = IF OverLimit(authHits[c], AuthMax)
                     THEN elapsed \cup {<<"auth", c>>} ELSE elapsed
    /\ signIns' = [signIns EXCEPT ![c] = 0]
    /\ UNCHANGED <<req, table, now, pool, env, boot, poolsConstructed,
                   handles, connQueue, apiHits, resetsSeen>>

\* An hour has passed since address c's first password-reset request of
\* the hour.
ResetHourElapses(c) ==
    /\ resetsSeen[c] > 0
    /\ resetsSeen' = [resetsSeen EXCEPT ![c] = 0]
    /\ UNCHANGED <<req, table, now, pool, env, boot, poolsConstructed,
                   handles, connQueue, apiHits, authHits, signIns, elapsed>>

\* ------------------------------------------- environment
\* The response is on the wire and the request object is dropped.
Finish(r) ==
    /\ req[r].pc = "done"
    /\ req' = [req EXCEPT ![r] = Idle]
    /\ UNCHANGED <<table, now, pool, env, boot, poolsConstructed, handles,
                 connQueue, limiterVars>>

\* ------------------------------------------------------ server.mjs: the app
\* The Origin headers of the model; "" is a request without one.
Origins ==
    {"", "https://book.example", "https://admin.example",
     "https://evil.example", "http://localhost:3000"}

PRODUCTION_FRONTEND ==
    "https://physical-ai-and-humanoid-robotics-t-lake.vercel.app"

\* process.env.ALLOWED_ORIGINS.split(',').map(o => o.trim()) for the lists of
\* the model.
SplitTrim(list) ==
    IF list = "https://book.example, https://admin.example"
       THEN {"https://book.example", "https://admin.example"}
       ELSE {list}

\* allowedOrigins of corsOriginValidator.
AllowedOrigins ==
    (IF Truthy(env.ALLOWED_ORIGINS)
        THEN SplitTrim(env.ALLOWED_ORIGINS)
        ELSE IF Truthy(env.FRONTEND_URL)
                THEN {env.FRONTEND_URL}
                ELSE {PRODUCTION_FRONTEND})
    \cup (IF env.NODE_ENV # "production"
            THEN {"http://localhost:3002", "http://localhost:3000",
                  "http://localhost:3001"}
            ELSE {})

\* corsOriginValidator calls callback(null, true).
CorsAllows(origin) == origin = "" \/ origin \in AllowedOrigins

\* ------------------------------------------ lib/auth.mjs: trustedOrigins
PRODUCTION_BACKEND == "https://physical-ai-book-database.vercel.app"

\* The x-forwarded-host headers of the model; "" is a request without one.
ForwardedHosts == {"", "book.example", "evil.example"}

\* `https://${xForwardedHost}`.
Https(host) ==
    CASE host = "book.example" -> "https://book.example"
      [] host = "evil.example" -> "https://evil.example"

\* allowedOrigins as both versions of trustedOrigins build it from
\* process.env.
StaticOrigins ==
    (IF Truthy(env.ALLOWED_ORIGINS)
        THEN SplitTrim(env.ALLOWED_ORIGINS)
        ELSE IF Truthy(env.FRONTEND_URL)
                THEN {env.FRONTEND_URL}
                ELSE {PRODUCTION_FRONTEND})
    \cup {PRODUCTION_BACKEND}
    \cup (IF Truthy(env.BETTER_AUTH_URL) THEN {env.BETTER_AUTH_URL} ELSE {})
    \cup (IF env.NODE_ENV # "production"
            THEN {"http://localhost:3002", "http://localhost:3000",
                  "http://localhost:8000"}
            ELSE {})

\* The array-returning trustedOrigins(request): the static list and the
\* origin of the request's x-forwarded-host.
trustedOrigins(q) ==
    StaticOrigins
    \cup (IF q.forwardedHost # "" THEN {Https(q.forwardedHost)} ELSE {})

\* The boolean-returning trustedOrigins(request): the Origin header, the
\* forwarded host or the referer's origin is in the static list.
trustedOriginsBoolean(q) ==
    \/ q.origin # "" /\ q.origin \in StaticOrigins
    \/ q.forwardedHost # "" /\ Https(q.forwardedHost) \in StaticOrigins
    \/ q.referer # "" /\ q.referer \in StaticOrigins

\* A request of the auth routes with its Origin, x-forwarded-host and
\* Referer headers (the referer by its origin) reaches the auth instance.
AuthArrive(r, origin, host, referer) ==
    /\ boot.pc = "serving"
    /\ req[r].pc = "idle"
    /\ req' = [req EXCEPT ![r] =
                 [Idle EXCEPT !.pc = "origin", !.route = SignIn,
                              !.origin = origin, !.forwardedHost = host,
                              !.referer = referer]]
    /\ UNCHANGED <<table, now, pool, env, boot, poolsConstructed, handles,
                   connQueue, limiterVars>>

\* The auth instance calls trustedOrigins(request) for the request.
TrustedOriginsCall(r) ==
    /\ req[r].pc = "origin"
    /\ req' = [req EXCEPT ![r] =
                 [@ EXCEPT !.pc = "auth",
                           !.trusted = trustedOrigins(req[r]),
                           !.passes = trustedOriginsBoolean(req[r])]]
    /\ UNCHANGED <<table, now, pool, env, boot, poolsConstructed, handles,
                   connQueue, limiterVars>>

\* A request reaches the app: its Origin header, its route and body, and
\* whether the bytes of its JSON body parse.  afterFault (ghost): the global
\* error handler has answered another request before this one arrived.
Arrive(r, c, origin, route, body, malformed) ==
    /\ boot.pc = "serving"
    /\ req[r].pc = "idle"
    /\ apiHits[c] < ApiMax + MaxOver
    /\ req' = [req EXCEPT ![r] =
                 [Idle EXCEPT !.pc = "cors", !.route = route, !.ip = c,
                              !.body = body, !.origin = origin,
                              !.malformed = malformed,
                              !.afterFault =
                                 \E s \in Slots : /\ req[s].pc = "done"
                                                  /\ req[s].err # NoError]]
    /\ UNCHANGED <<table, now, pool, env, boot, poolsConstructed, handles,
                   connQueue, limiterVars>>

\* app.use(cors({ origin: corsOriginValidator })): the request goes on to
\* the router, or the validator's Error goes to next(err).
Cors(r) ==
    /\ req[r].pc = "cors"
    /\ req' = [req EXCEPT ![r] =
                 IF CorsAllows(@.origin)
                    THEN [@ EXCEPT !.pc = "helmet", !.stages = {"cors"}]
                    ELSE [Logged(@, LogEntry("warn", "CORS blocked request",
                                             @.origin))
                            EXCEPT !.pc = "error", !.err = CorsError]]
    /\ UNCHANGED <<table, now, pool, env, boot, poolsConstructed, handles,
                   connQueue, limiterVars>>

\* app.use(helmet({...})) sets the security headers and calls next();
\* app.use(requestLogger) registers its 'finish' listener and calls next():
\* the request enters the router.  stages (ghost): the app-level
\* middleware the request has passed.
HelmetThenLogger(r) ==
    /\ req[r].pc = "helmet"
    /\ req' = [req EXCEPT ![r] =
                 [@ EXCEPT !.pc = "json",
                           !.stages = @ \cup {"headers", "logging"}]]
    /\ UNCHANGED <<table, now, pool, env, boot, poolsConstructed, handles,
                   connQueue, limiterVars>>

\* router.use(express.json()): a body that does not parse goes to next(err)
\* with status 400; any other request goes on to the limiters.
JsonParser(r) ==
    /\ req[r].pc = "json"
    /\ req' = [req EXCEPT ![r] =
                 IF @.malformed
                    THEN [@ EXCEPT !.pc = "error", !.err = BodyParseError]
                    ELSE [@ EXCEPT !.pc = "router"]]
    /\ UNCHANGED <<table, now, pool, env, boot, poolsConstructed, handles,
                   connQueue, limiterVars>>

\* isDevelopment testing for the development mode itself.
IsDevelopmentOnly == env.NODE_ENV = "development"

\* `const isDevelopment = process.env.NODE_ENV !== 'production'`.
IsDevelopment == env.NODE_ENV # "production"

\* The body the global error handler sends for err.
ErrorBody(err) ==
    [Json(IF err.status # 0 THEN err.status ELSE 500,
          "Internal Server Error",
          IF IsDevelopment THEN err.message
                           ELSE "An unexpected error occurred")
       EXCEPT !.stack = IF IsDevelopment THEN err.stack ELSE Undefined]

\* An error handler that logs and answers nothing.
ErrorHandledLogOnly(q) ==
    [Logged(q, LogEntry("error", "Unhandled error", q.err.message))
       EXCEPT !.pc = "done"]

\* The global error handler on request q: logs, then answers.
ErrorHandled(q) ==
    Send(Logged(q, LogEntry("error", "Unhandled error", q.err.message)),
         ErrorBody(q.err))

\* app.use((err, req, res, next) => ...): the request whose middleware
\* called next(err).
ErrorHandler(r) ==
    /\ req[r].pc = "error"
    /\ req' = [req EXCEPT ![r] = ErrorHandled(@)]
    /\ UNCHANGED <<table, now, pool, env, boot, poolsConstructed, handles,
                   connQueue, limiterVars>>

\* --------------------------------------- lib/logger.mjs: setupErrorHandlers
\* The process-level conditions: a promise rejected with no handler, an
\* exception thrown outside every try block.
ProcessEvents == {"unhandledRejection", "uncaughtException"}

\* What the listener of each event logs.
ProcessLog(event) ==
    IF event = "unhandledRejection"
       THEN LogEntry("error", "Unhandled Rejection", "reason")
       ELSE LogEntry("error", "Uncaught Exception", "error")

\* No listener arming the exit timer.
ArmsExitTimerNever(event) == FALSE

\* The listener calls setTimeout(() => process.exit(1), 1000): only the
\* one of uncaughtException does.
ArmsExitTimer(event) == event = "uncaughtException"

\* process.on(event, listener) of setupErrorHandlers() runs for `event`.
ProcessEvent(event) ==
    /\ boot.pc = "serving"
    /\ boot' = [boot EXCEPT !.log = @ \cup {ProcessLog(event)},
                            !.exitTimer = @ \/ ArmsExitTimer(event)]
    /\ UNCHANGED <<req, table, now, pool, env, poolsConstructed, handles,
                   connQueue, limiterVars>>

\* The timer of the uncaughtException listener fires: process.exit(1).
FlushTimer ==
    /\ boot.pc = "serving"
    /\ boot.exitTimer
    /\ boot' = [boot EXCEPT !.pc = "exited", !.exitTimer = FALSE]
    /\ UNCHANGED <<req, table, now, pool, env, poolsConstructed, handles,
                   connQueue, limiterVars>>

\* The static imports of server.mjs, all evaluated before its first
\* statement (ES module imports are hoisted, wherever they are written):
\* load-env.js, env-validator.mjs, logger.mjs, then through
\* utils/api-handler.mjs lib/auth.mjs, whose `database: getPool()` constructs
\* the pool and whose betterAuth(...) builds the auth instance, and
\* middleware/rate-limit.mjs, whose limiters read their configuration.  A
\* throwing getPool() ends the process there.
ImportModules ==
    /\ boot.pc = "load"
    /\ IF GetPoolThrows
          THEN /\ boot' = [boot EXCEPT !.pc = "crashed"]
               /\ UNCHANGED <<pool, poolsConstructed, handles>>
          ELSE /\ getPool
               /\ boot' = [boot EXCEPT !.pc = "start"]
    /\ UNCHANGED <<req, table, now, env, connQueue, limiterVars>>

\* The top of server.mjs: validateEnv() collects its errors, sets the
\* defaults and throws if there are errors; the script prints the message and
\* calls process.exit(1), or goes on to build and export the app.
Startup ==
    /\ boot.pc = "start"
    /\ LET errors == CollectErrors(env, 1)
       IN  boot' = [boot EXCEPT
                      !.pc = IF Len(errors) > 0 THEN "exited" ELSE "serving",
                      !.errors = errors, !.thrown = Len(errors) > 0]
    /\ env' = WithDefaults(env)
    /\ UNCHANGED <<req, table, now, pool, poolsConstructed, handles, connQueue,
                   limiterVars>>

\* The connection string reaches process.env (dotenv.config() of
\* load-env.js, or the platform's configuration) while the server runs.
SetDatabaseUrl ==
    /\ ~DATABASE_URL
    /\ env' = [env EXCEPT !.DATABASE_URL = DeployedEnv.DATABASE_URL]
    /\ UNCHANGED <<req, table, now, pool, boot, poolsConstructed, handles,
                   connQueue, limiterVars>>

\* Time passes at the database.
Tick ==
    /\ now < MaxClock
    /\ now' = now + 1
    /\ UNCHANGED <<req, table, pool, env, boot, poolsConstructed, handles, connQueue,
                   limiterVars>>

\* Every request the model knows, on every slot.
Next ==
    \/ \E r \in Slots, route \in ProtectedRoutes \cup {OptionalRoute} :
         \E body \in BodiesOf(route) : RouteMatch(r, route, body)
    \/ \E r \in Slots, c \in Clients :
         \E route \in ProtectedRoutes \cup AuthRoutes \cup {Health} :
           \E body \in BodiesOf(route) : Receive(r, c, route, body)
    \/ \E r \in Slots : RateLimit(r)
    \/ \E r \in Slots, ok \in BOOLEAN : BetterAuthHandler(r, ok)
    \/ \E r \in Slots : HealthCheck(r)
    \/ \E c \in Clients : ApiWindowExpires(c)
    \/ \E c \in Clients : AuthWindowExpires(c)
    \/ \E c \in Clients : ResetHourElapses(c)
    \/ \E r \in Slots, v \in Verdicts : RequireAuth(r, v)
    \/ \E r \in Slots, e \in VerifierErrors : RequireAuthThrows(r, e)
    \/ \E r \in Slots, v \in Verdicts : OptionalAuth(r, v)
    \/ \E r \in Slots, e \in VerifierErrors : OptionalAuthThrows(r, e)
    \/ \E r \in Slots : OptionalHandler(r)
    \/ \E r \in Slots : GetStart(r)
    \/ \E r \in Slots, ok \in BOOLEAN : GetSelect(r, ok)
    \/ \E r \in Slots : PutStart(r)
    \/ \E r \in Slots, ok \in BOOLEAN : PutUpsert(r, ok)
    \/ \E r \in Slots, ok \in BOOLEAN : PutSelect(r, ok)
    \/ \E r \in Slots : PersonalizeStart(r)
    \/ \E r \in Slots, ok \in BOOLEAN : PersonalizeSelect(r, ok)
    \/ \E r \in Slots : ChatHandler(r)
    \/ \E r \in Slots : Finish(r)
    \/ Tick

Spec == Init /\ [][Next]_vars

\* Guarded requests of every route, two in flight at a time, within one
\* instant of the database clock.
NextGuard ==
    \/ \E r \in Slots, route \in ProtectedRoutes \cup {OptionalRoute} :
         \E body \in GuardBodiesOf(route) : RouteMatch(r, route, body)
    \/ \E r \in Slots, v \in Verdicts : RequireAuth(r, v)
    \/ \E r \in Slots, e \in VerifierErrors : RequireAuthThrows(r, e)
    \/ \E r \in Slots, v \in Verdicts : OptionalAuth(r, v)
    \/ \E r \in Slots, e \in VerifierErrors : OptionalAuthThrows(r, e)
    \/ \E r \in Slots : OptionalHandler(r)
    \/ \E r \in Slots : GetStart(r)
    \/ \E r \in Slots, ok \in BOOLEAN : GetSelect(r, ok)
    \/ \E r \in Slots : PutStart(r)
    \/ \E r \in Slots, ok \in BOOLEAN : PutUpsert(r, ok)
    \/ \E r \in Slots, ok \in BOOLEAN : PutSelect(r, ok)
    \/ \E r \in Slots : PersonalizeStart(r)
    \/ \E r \in Slots, ok \in BOOLEAN : PersonalizeSelect(r, ok)
    \/ \E r \in Slots : ChatHandler(r)
    \/ \E r \in Slots : Finish(r)

SpecGuard == Init /\ [][NextGuard]_vars

\* Profile reads and writes of both principals with every body of
\* PutBodies, one request after the other, as the database clock advances.
NextProfile ==
    \/ \E route \in {GetProfile, PutProfile} :
         \E body \in BodiesOf(route) : RouteMatch("r1", route, body)
    \/ \E v \in Verdicts : RequireAuth("r1", v)
    \/ \E e \in VerifierErrors : RequireAuthThrows("r1", e)
    \/ GetStart("r1")
    \/ \E ok \in BOOLEAN : GetSelect("r1", ok)
    \/ PutStart("r1")
    \/ \E ok \in BOOLEAN : PutUpsert("r1", ok)
    \/ \E ok \in BOOLEAN : PutSelect("r1", ok)
    \/ Finish("r1")
    \/ Tick

SpecProfile == Init /\ [][NextProfile]_vars

\* The limiters: address ip1 sends requests to the sign-in, sign-up,
\* session and health routes, address ip2 to the sign-in route, one request
\* after the other, and the windows of either limiter run out at any time.
NextRate ==
    \/ \E route \in {SignIn, SignUp, AuthSession, Health} :
         Receive("r1", "ip1", route, EmptyBody)
    \/ Receive("r1", "ip2", SignIn, EmptyBody)
    \/ RateLimit("r1")
    \/ \E ok \in BOOLEAN : BetterAuthHandler("r1", ok)
    \/ HealthCheck("r1")
    \/ \E c \in Clients : ApiWindowExpires(c)
    \/ \E c \in Clients : AuthWindowExpires(c)
    \/ Finish("r1")

SpecRate == Init /\ [][NextRate]_vars

\* Password resets: either address sends requests to the forget-password
\* route, one after the other, within and across hours and general windows.
NextReset ==
    \/ \E c \in Clients : Receive("r1", c, ForgetPassword, EmptyBody)
    \/ RateLimit("r1")
    \/ \E ok \in BOOLEAN : BetterAuthHandler("r1", ok)
    \/ \E c \in Clients : ApiWindowExpires(c)
    \/ \E c \in Clients : ResetHourElapses(c)
    \/ Finish("r1")

SpecReset == Init /\ [][NextReset]_vars

\* The server started without a connection string: the key is missing or
\* empty, every other key as deployed.
InitUnset ==
    /\ req = [r \in Slots |-> Idle]
    /\ table = {}
    /\ now = 0
    /\ pool = 0
    /\ env \in {[DeployedEnv EXCEPT !.DATABASE_URL = u] : u \in {Undefined, ""}}
    /\ boot = Serving
    /\ poolsConstructed = 0
    /\ handles = {}
    /\ connQueue = <<>>
    /\ apiHits = [c \in Clients |-> 0]
    /\ authHits = [c \in Clients |-> 0]
    /\ signIns = [c \in Clients |-> 0]
    /\ resetsSeen = [c \in Clients |-> 0]
    /\ elapsed = {}

\* Profile requests against a server whose connection string arrives late.
NextEnv ==
    \/ \E r \in Slots, route \in {GetProfile, PutProfile} :
         \E body \in GuardBodiesOf(route) : RouteMatch(r, route, body)
    \/ \E r \in Slots, v \in Verdicts : RequireAuth(r, v)
    \/ \E r \in Slots : GetStart(r)
    \/ \E r \in Slots, ok \in BOOLEAN : GetSelect(r, ok)
    \/ \E r \in Slots : PutStart(r)
    \/ \E r \in Slots, ok \in BOOLEAN : PutUpsert(r, ok)
    \/ \E r \in Slots, ok \in BOOLEAN : PutSelect(r, ok)
    \/ \E r \in Slots : Finish(r)
    \/ SetDatabaseUrl

SpecEnv == InitUnset /\ [][NextEnv]_vars

\* process.env as the platform hands it to the startup script.
BootEnvs ==
    [DATABASE_URL : {Undefined, "", "mysql://db", "postgres://db",
                     "postgresql://db"},
     BETTER_AUTH_SECRET : {Undefined, "", "too-short-secret",
                           "0123456789abcdef0123456789abcde",
                           "0123456789abcdef0123456789abcdef"},
     BETTER_AUTH_URL : {Undefined, "not a url", "https://auth.example"},
     FRONTEND_URL : {Undefined, "", "not a url", "https://book.example"},
     NODE_ENV : {Undefined, "production"},
     ALLOWED_ORIGINS : {Undefined}]

InitBoot ==
    /\ req = [r \in Slots |-> Idle]
    /\ table = {}
    /\ now = 0
    /\ pool = 0
    /\ env \in BootEnvs
    /\ boot = Starting
    /\ poolsConstructed = 0
    /\ handles = {}
    /\ connQueue = <<>>
    /\ apiHits = [c \in Clients |-> 0]
    /\ authHits = [c \in Clients |-> 0]
    /\ signIns = [c \in Clients |-> 0]
    /\ resetsSeen = [c \in Clients |-> 0]
    /\ elapsed = {}

\* The startup script alone.
NextBoot == Startup

SpecBoot == InitBoot /\ [][NextBoot]_vars

\* The environments of a server that passed validateEnv(): the required
\* keys valid, NODE_ENV set (by the platform or by its default).
ServingEnvs ==
    {[DeployedEnv EXCEPT !.NODE_ENV = mode, !.ALLOWED_ORIGINS = list] :
        mode \in {"production", "development", "test"},
        list \in {Undefined, "https://book.example, https://admin.example"}}

InitApp ==
    /\ req = [r \in Slots |-> Idle]
    /\ table = {}
    /\ now = 0
    /\ pool = 0
    /\ env \in ServingEnvs
    /\ boot = Serving
    /\ poolsConstructed = 0
    /\ handles = {}
    /\ connQueue = <<>>
    /\ apiHits = [c \in Clients |-> 0]
    /\ authHits = [c \in Clients |-> 0]
    /\ signIns = [c \in Clients |-> 0]
    /\ resetsSeen = [c \in Clients |-> 0]
    /\ elapsed = {}

\* Requests through the whole app: CORS, body parser, limiters, the health
\* and chat routes, the global error handler.
NextApp ==
    \/ \E r \in Slots, origin \in Origins :
         Arrive(r, "ip1", origin, Health, EmptyBody, FALSE)
    \/ \E origin \in Origins, malformed \in BOOLEAN :
         Arrive("r1", "ip1", origin, PostChat,
                [EmptyBody EXCEPT !.message = "hello"], malformed)
    \/ \E r \in Slots : Cors(r)
    \/ \E r \in Slots : HelmetThenLogger(r)
    \/ \E r \in Slots : JsonParser(r)
    \/ \E r \in Slots : RateLimit(r)
    \/ \E r \in Slots : HealthCheck(r)
    \/ \E r \in Slots, v \in Verdicts : RequireAuth(r, v)
    \/ \E r \in Slots : ChatHandler(r)
    \/ \E r \in Slots : ErrorHandler(r)
    \/ \E r \in Slots : Finish(r)

SpecApp == InitApp /\ [][NextApp]_vars

\* The bodies of POST /personalize of the personalization specification:
\* contents with matching words in several cases, a plural that is no whole
\* word match, and bodies the handler rejects.
PersonalizeInputs ==
    {EmptyBody, [EmptyBody EXCEPT !.chapterId = "ch1"]}
    \cup {[EmptyBody EXCEPT !.chapterId = "ch1", !.content = c] :
            c \in {<<"This", "concept", "is", "important">>,
                   <<"Concept", "and", "concepts">>,
                   <<"An", "example", "METHOD", "approach">>}}

\* The tables of the personalization specification: no row, or the row of
\* principal A as PUT /user/profile leaves it.
ProfileTables ==
    {{}} \cup
    {{[userId |-> "A", skill_level |-> Null, software_background |-> sw,
       hardware_background |-> Null, learning_goal |-> goal,
       createdAt |-> 0, updatedAt |-> 0]} :
       sw \in {Null, "beginner developer", "Advanced engineer",
               "advanced beginner", "web developer"},
       goal \in {Null, "robotics", "AI research", "ml for robotics",
                 "web apps"}}

InitPersonalize ==
    /\ req = [r \in Slots |-> Idle]
    /\ table \in ProfileTables
    /\ now = 0
    /\ pool = 0
    /\ env = DeployedEnv
    /\ boot = Serving
    /\ poolsConstructed = 0
    /\ handles = {}
    /\ connQueue = <<>>
    /\ apiHits = [c \in Clients |-> 0]
    /\ authHits = [c \in Clients |-> 0]
    /\ signIns = [c \in Clients |-> 0]
    /\ resetsSeen = [c \in Clients |-> 0]
    /\ elapsed = {}

NextPersonalize ==
    \/ \E r \in Slots, body \in PersonalizeInputs :
         RouteMatch(r, PostPersonalize, body)
    \/ \E r \in Slots, v \in Verdicts : RequireAuth(r, v)
    \/ \E r \in Slots : PersonalizeStart(r)
    \/ \E r \in Slots, ok \in BOOLEAN : PersonalizeSelect(r, ok)
    \/ \E r \in Slots : Finish(r)

SpecPersonalize == InitPersonalize /\ [][NextPersonalize]_vars

\* An instance whose auth was built with the userProfile plugin.
WithProfilePlugin == [Serving EXCEPT !.plugins = {"user-profile"}]

InitSignUp ==
    /\ req = [r \in Slots |-> Idle]
    /\ table = {}
    /\ now = 0
    /\ pool = 0
    /\ env = DeployedEnv
    /\ boot = WithProfilePlugin
    /\ poolsConstructed = 0
    /\ handles = {}
    /\ connQueue = <<>>
    /\ apiHits = [c \in Clients |-> 0]
    /\ authHits = [c \in Clients |-> 0]
    /\ signIns = [c \in Clients |-> 0]
    /\ resetsSeen = [c \in Clients |-> 0]
    /\ elapsed = {}

\* Sign-ups with the profile hook next to profile writes of principal A.
NextSignUp ==
    \/ \E r \in Slots, body \in SignUpBodies : SignUpMatch(r, body)
    \/ \E r \in Slots, returned \in {Undefined, "A"} :
         SignUpEndpoint(r, returned)
    \/ \E r \in Slots : HookStart(r)
    \/ \E r \in Slots, ok \in BOOLEAN : HookQuery(r, ok)
    \/ \E r \in Slots, body \in GuardBodiesOf(PutProfile) :
         RouteMatch(r, PutProfile, body)
    \/ \E r \in Slots, v \in Verdicts : RequireAuth(r, v)
    \/ \E r \in Slots : PutStart(r)
    \/ \E r \in Slots, ok \in BOOLEAN : PutUpsert(r, ok)
    \/ \E r \in Slots, ok \in BOOLEAN : PutSelect(r, ok)
    \/ \E r \in Slots : Finish(r)

SpecSignUp == InitSignUp /\ [][NextSignUp]_vars

InitStart ==
    /\ req = [r \in Slots |-> Idle]
    /\ table = {}
    /\ now = 0
    /\ pool = 0
    /\ env \in BootEnvs
    /\ boot = Loading
    /\ poolsConstructed = 0
    /\ handles = {}
    /\ connQueue = <<>>
    /\ apiHits = [c \in Clients |-> 0]
    /\ authHits = [c \in Clients |-> 0]
    /\ signIns = [c \in Clients |-> 0]
    /\ resetsSeen = [c \in Clients |-> 0]
    /\ elapsed = {}

\* The process from `node server.mjs` to the exported app.
NextStart == ImportModules \/ Startup

SpecStart == InitStart /\ [][NextStart]_vars

\* One request at a time through the whole app to a protected route.
NextPipeline ==
    \/ \E origin \in Origins :
         Arrive("r1", "ip1", origin, GetProfile, EmptyBody, FALSE)
    \/ \E origin \in Origins, malformed \in BOOLEAN :
         Arrive("r1", "ip1", origin, PostChat,
                [EmptyBody EXCEPT !.message = "hello"], malformed)
    \/ Cors("r1")
    \/ HelmetThenLogger("r1")
    \/ JsonParser("r1")
    \/ RateLimit("r1")
    \/ \E v \in Verdicts : RequireAuth("r1", v)
    \/ \E e \in VerifierErrors : RequireAuthThrows("r1", e)
    \/ GetStart("r1")
    \/ \E ok \in BOOLEAN : GetSelect("r1", ok)
    \/ ChatHandler("r1")
    \/ ErrorHandler("r1")
    \/ Finish("r1")

SpecPipeline == InitApp /\ [][NextPipeline]_vars

\* The running process: chat requests while it serves, the process-level
\* conditions and the exit timer.  The timer is a setTimeout of the event
\* loop, which runs it once it is due: weak fairness on FlushTimer.
NextProcess ==
    \/ /\ boot.pc = "serving"
       /\ \/ \E r \in Slots, body \in ChatBodies :
               RouteMatch(r, PostChat, body)
          \/ \E r \in Slots, v \in Verdicts : RequireAuth(r, v)
          \/ \E r \in Slots : ChatHandler(r)
          \/ \E r \in Slots : Finish(r)
    \/ \E event \in ProcessEvents : ProcessEvent(event)
    \/ FlushTimer

SpecProcess == Init /\ [][NextProcess]_vars /\ WF_vars(FlushTimer)

\* The bodies of the two-request specification: two that supply disjoint
\* fields and one that supplies the first one's field with another value.
ConcurrentPutBodies ==
    {[EmptyBody EXCEPT !.skillLevel = "advanced"],
     [EmptyBody EXCEPT !.learningGoal = "robotics"],
     [EmptyBody EXCEPT !.skillLevel = "beginner"]}

\* The verifier's answers of the two-request specification.
PrincipalVerdicts ==
    {[present |-> TRUE, user |-> p, session |-> SessionOf(p)] :
       p \in Principals}

\* Two PUT /user/profile requests, one per slot, under every interleaving
\* of their steps; no third request.
NextTwoPuts ==
    \/ \E r \in Slots, body \in ConcurrentPutBodies :
         RouteMatch(r, PutProfile, body)
    \/ \E r \in Slots, v \in PrincipalVerdicts : RequireAuth(r, v)
    \/ \E r \in Slots : PutStart(r)
    \/ \E r \in Slots, ok \in BOOLEAN : PutUpsert(r, ok)
    \/ \E r \in Slots, ok \in BOOLEAN : PutSelect(r, ok)
    \/ Tick

SpecTwoPuts == Init /\ [][NextTwoPuts]_vars

\* GET /user/profile requests in both slots while closePool() is called;
\* a statement handed to a pool after its end() is rejected by the pool.
NextClose ==
    \/ \E r \in Slots : RouteMatch(r, GetProfile, EmptyBody)
    \/ \E r \in Slots, v \in PrincipalVerdicts : RequireAuth(r, v)
    \/ \E r \in Slots : GetStart(r)
    \/ \E r \in Slots, ok \in BOOLEAN :
         (req[r].usedEnded => ~ok) /\ GetSelect(r, ok)
    \/ \E r \in Slots : Finish(r)
    \/ ClosePoolStart
    \/ ClosePoolEnd

SpecClose == Init /\ [][NextClose]_vars

\* Requests of the auth routes with their headers, under each environment
\* of a serving process.
NextTrust ==
    \/ \E r \in Slots, origin \in Origins, host \in ForwardedHosts :
         \E referer \in {"", "https://book.example"} :
            AuthArrive(r, origin, host, referer)
    \/ \E r \in Slots : TrustedOriginsCall(r)
    \/ \E r \in Slots, ok \in BOOLEAN : BetterAuthHandler(r, ok)
    \/ \E r \in Slots : Finish(r)

SpecTrust == InitApp /\ [][NextTrust]_vars

\* =================================================================== claims
\* The verifier resolved without a principal: null, or a session with no user.
NoUserSession(d) == d.kind = "value" /\ (~d.v.present \/ d.v.user = Undefined)
\* The verifier resolved to a session with a user.
UserSession(d) == d.kind = "value" /\ d.v.present /\ d.v.user \in Principals

\* C1: with DATABASE_URL set and closePool() never called, however many
\* getPool() calls the interleaved requests make, exactly one Pool is
\* constructed and every call returns that one handle.
C1_SinglePool ==
    /\ poolsConstructed <= 1
    /\ handles # {} => poolsConstructed = 1 /\ handles = {pool}
    /\ \A r \in Slots : req[r].queries > 0 => pool # 0 /\ handles = {pool}

\* Three getPool() calls of two requests whose queries overlap.
C1_Witness ==
    /\ DATABASE_URL
    /\ req["r1"].queries = 2 /\ req["r1"].pc = "select"
    /\ req["r2"].queries = 1 /\ req["r2"].pc \in {"select", "upsert"}
    /\ poolsConstructed = 1

\* C2: on each route guarded by requireAuth, a request whose verifier
\* returns no session, or a session without a user, is answered 401 and
\* neither its handler nor query() runs for it.
C2_NoSessionStopsAtGuard ==
    \A r \in Slots :
        (req[r].route \in ProtectedRoutes /\ NoUserSession(req[r].verdict))
        => /\ req[r].pc = "done"
           /\ req[r].sent = 1
           /\ req[r].res = UnauthorizedBody
           /\ req[r].res.status = 401
           /\ req[r].nextCalls = 0
           /\ req[r].handlerRuns = 0
           /\ req[r].queries = 0
           /\ req[r].writes = 0

\* A null session on GET /user/profile and a user-less session on
\* PUT /user/profile, both answered 401.
C2_Witness ==
    /\ req["r1"].route = GetProfile
    /\ req["r1"].verdict = Resolved(NoSession)
    /\ req["r1"].res.status = 401
    /\ req["r2"].route = PutProfile
    /\ req["r2"].verdict.kind = "value"
    /\ req["r2"].verdict.v.present /\ req["r2"].verdict.v.user = Undefined
    /\ req["r2"].res.status = 401

\* C6: when the verifier throws under requireAuth the exception is logged,
\* the request is answered 500 with a fixed text that holds nothing of the
\* exception, the handler does not run, and the request is complete (the
\* process goes on: see the witness).
C6_VerifierFaultGeneric500 ==
    \A r \in Slots :
        (req[r].route \in ProtectedRoutes /\ req[r].verdict.kind = "error")
        => /\ req[r].pc = "done"
           /\ req[r].sent = 1
           /\ req[r].res.status = 500
           /\ req[r].res.error = "Authentication failed"
           /\ req[r].res.message = "An error occurred while verifying your session"
           /\ req[r].res.message \notin VerifierErrors
           /\ req[r].res.error \notin VerifierErrors
           /\ req[r].res.profile = {}
           /\ LogEntry("error", "Authentication error", req[r].verdict.e)
                \in req[r].log
           /\ req[r].nextCalls = 0
           /\ req[r].handlerRuns = 0
           /\ req[r].queries = 0

\* A request answered 500 by the guard, and a request that arrived after
\* it and was served by its handler.
C6_Witness ==
    \E r, s \in Slots :
        /\ req[r].route \in ProtectedRoutes
        /\ req[r].verdict.kind = "error"
        /\ req[r].res.status = 500
        /\ req[s].afterFault
        /\ req[s].handlerRuns = 1
        /\ req[s].res.status = 200

\* C7: requireAuth has exactly one outcome per request: one response (401
\* or 500) and no next(), or one next() and no response of its own; it
\* calls next() only for a session with a user, with req.user and
\* req.session set to that session's before the handler runs.
C7_RequireAuthOneOutcome ==
    \A r \in Slots :
        req[r].route \in ProtectedRoutes
        => /\ req[r].nextCalls <= 1
           /\ req[r].sent <= 1
           /\ req[r].pc = "verify" => req[r].nextCalls = 0 /\ req[r].sent = 0
           /\ req[r].pc \notin {"idle", "verify"}
              => \/ /\ req[r].nextCalls = 0
                    /\ req[r].handlerRuns = 0
                    /\ req[r].pc = "done"
                    /\ req[r].sent = 1
                    /\ req[r].res.status \in {401, 500}
                 \/ /\ req[r].nextCalls = 1
                    /\ UserSession(req[r].verdict)
                    /\ req[r].user = req[r].verdict.v.user
                    /\ req[r].session = req[r].verdict.v.session
                    /\ req[r].handlerRuns = 0
                         => req[r].sent = 0 /\ req[r].pc = "handler"

\* next() was called for principal A's session and the handler has not
\* started yet.
C7_Witness ==
    \E r \in Slots :
        /\ req[r].route \in ProtectedRoutes
        /\ req[r].pc = "handler"
        /\ req[r].nextCalls = 1
        /\ req[r].sent = 0
        /\ req[r].user = "A"
        /\ req[r].session = "sess-A"

\* C8: optionalAuth never short-circuits: it calls next() exactly once and
\* sends nothing, whether the verifier returns a session, none, or throws;
\* req.user and req.session are set only for a session with a user.
C8_OptionalAuthNeverStops ==
    \A r \in Slots :
        req[r].route = OptionalRoute
        => /\ req[r].nextCalls <= 1
           /\ req[r].pc = "verify" => req[r].nextCalls = 0 /\ req[r].sent = 0
           /\ req[r].pc \notin {"idle", "verify"}
              => /\ req[r].nextCalls = 1
                 /\ req[r].sent = req[r].handlerRuns
                 /\ req[r].handlerRuns = 0 => req[r].pc = "handler"
                 /\ IF UserSession(req[r].verdict)
                       THEN /\ req[r].user = req[r].verdict.v.user
                            /\ req[r].session = req[r].verdict.v.session
                       ELSE /\ req[r].user = Undefined
                            /\ req[r].session = Undefined

\* The verifier threw, and the verifier returned a user-less session: both
\* requests went on to the handler with no principal attached.
C8_Witness ==
    /\ req["r1"].route = OptionalRoute
    /\ req["r1"].verdict.kind = "error"
    /\ req["r1"].pc = "handler"
    /\ req["r1"].nextCalls = 1
    /\ req["r2"].route = OptionalRoute
    /\ NoUserSession(req["r2"].verdict)
    /\ req["r2"].pc = "done"
    /\ req["r2"].handlerRuns = 1
    /\ req["r2"].user = Undefined

\* ------------------------------------------------ profile claims
Columns ==
    {"skill_level", "software_background", "hardware_background", "learning_goal"}

\* The body field sent for a column.
Sent(body, c) ==
    CASE c = "skill_level" -> body.skillLevel
      [] c = "software_background" -> body.softwareBackground
      [] c = "hardware_background" -> body.hardwareBackground
      [] c = "learning_goal" -> body.learningGoal

\* The value of column c in a principal's rows, null when there is no row.
Stored(rows, c) == IF rows = {} THEN Null ELSE (CHOOSE row \in rows : TRUE)[c]

C4_AsStated ==
    \A r \in Slots :
        (/\ req[r].route = PutProfile
         /\ UserSession(req[r].verdict)
         /\ req[r].pc = "done"
         /\ \E c \in Columns : Sent(req[r].body, c) # Undefined)
        => \E row \in SelectByUser(table, req[r].user) :
              \A c \in Columns :
                 row[c] = IF Sent(req[r].body, c) # Undefined
                             THEN Sent(req[r].body, c)
                             ELSE Stored(SelectByUser(req[r].before, req[r].user), c)

\* C4, amended: a PUT of an authenticated principal writes exactly when it
\* sent a non-empty value in at least one of the four fields and its upsert
\* succeeded; the write leaves the principal's one row with, per field, the
\* sent value if it was sent non-empty and otherwise the previous value
\* (null without a previous row), createdAt as it was (the write's time for
\* a new row) and updatedAt moved to the write's time; a field sent empty
\* or null counts as not sent.
C4_PartialMerge ==
    \A r \in Slots :
        req[r].route = PutProfile
        => LET u == req[r].user
               prev == SelectByUser(req[r].before, u)
               post == SelectByUser(req[r].after, u)
               nonEmpty == \E c \in Columns : Truthy(Sent(req[r].body, c))
           IN  /\ req[r].writes <= 1
               /\ req[r].writes = 1
                  => /\ UserSession(req[r].verdict) /\ nonEmpty
                     /\ Cardinality(post) = 1
                     /\ \A row \in post :
                          /\ \A c \in Columns :
                               row[c] = IF Truthy(Sent(req[r].body, c))
                                           THEN Sent(req[r].body, c)
                                           ELSE Stored(prev, c)
                          /\ row.userId = u
                          /\ row.updatedAt <= now
                          /\ prev = {} => row.createdAt = row.updatedAt
                          /\ \A old \in prev : /\ row.createdAt = old.createdAt
                                               /\ row.updatedAt >= old.updatedAt
               /\ req[r].writes = 0 => req[r].after = {}
               /\ (req[r].handlerRuns = 1 /\ nonEmpty /\ req[r].pc = "select")
                  => req[r].writes = 1
               /\ (req[r].handlerRuns = 1 /\ nonEmpty /\ req[r].pc = "done")
                  => \/ req[r].writes = 1
                     \/ req[r].res = HandlerErrorBody(PutProfile)
               /\ (req[r].pc = "done" /\ req[r].res.status = 200)
                  => req[r].writes = 1

\* The two upserts of section 8 in a row: {learningGoal: "robotics"} made
\* the row at time 0, then {skillLevel: "advanced"} at time 1 kept the goal.
C4_Witness ==
    /\ req["r1"].route = PutProfile
    /\ req["r1"].user = "A"
    /\ req["r1"].body.skillLevel = "advanced"
    /\ req["r1"].body.learningGoal = Undefined
    /\ req["r1"].res.status = 200
    /\ \E old \in SelectByUser(req["r1"].before, "A") :
          /\ old.skill_level = Null /\ old.learning_goal = "robotics"
          /\ old.updatedAt = 0
    /\ \E row \in SelectByUser(table, "A") :
          /\ row.skill_level = "advanced" /\ row.learning_goal = "robotics"
          /\ row.createdAt = 0 /\ row.updatedAt = 1

\* C9: a PUT /user/profile whose body has none of the four fields never
\* queries or writes, and when it reaches the handler it is answered 400
\* with the validation error, the table being as it was.
C9_EmptyPutRejected ==
    \A r \in Slots :
        (/\ req[r].route = PutProfile
         /\ \A c \in Columns : Sent(req[r].body, c) = Undefined)
        => /\ req[r].writes = 0
           /\ req[r].queries = 0
           /\ req[r].after = {}
           /\ req[r].handlerRuns = 1
              => /\ req[r].pc = "done"
                 /\ req[r].sent = 1
                 /\ req[r].res = InvalidPutBody
                 /\ req[r].res.status = 400
                 /\ table = req[r].before

\* An authenticated PUT with an empty body answered 400 over a table that
\* holds a row.
C9_Witness ==
    /\ req["r1"].route = PutProfile
    /\ req["r1"].body = EmptyBody
    /\ req["r1"].user = "A"
    /\ req["r1"].res.status = 400
    /\ SelectByUser(table, "A") # {}

\* C10 as stated: a completed GET of an authenticated principal answered
\* 404 when the principal has no row and with the principal's row otherwise.
C10_AsStated ==
    \A r \in Slots :
        (req[r].route = GetProfile /\ UserSession(req[r].verdict)
           /\ req[r].pc = "done")
        => IF SelectByUser(table, req[r].user) = {}
              THEN req[r].res.status = 404
              ELSE /\ req[r].res.status = 200
                   /\ req[r].res.profile =
                        {ProfileView(row, TRUE) :
                           row \in SelectByUser(table, req[r].user)}

\* C10, amended: a GET of an authenticated principal whose lookup succeeds
\* answers 404 when the principal has no row and otherwise 200 with the
\* principal's own row; when the lookup fails it answers 500 with the
\* handler's fixed text; it never returns another principal's row and never
\* changes the table.
C10_OwnProfileOr404 ==
    \A r \in Slots :
        (req[r].route = GetProfile /\ req[r].handlerRuns = 1)
        => LET own == SelectByUser(table, req[r].user)
               failed == \E e \in DbErrors :
                            LogEntry("error", "Database query error", e) \in req[r].log
           IN  /\ UserSession(req[r].verdict)
               /\ req[r].writes = 0
               /\ table = req[r].before
               /\ req[r].pc = "done"
                  => /\ req[r].sent = 1
                     /\ \A p \in req[r].res.profile : p.userId = req[r].user
                     /\ IF failed
                           THEN req[r].res = HandlerErrorBody(GetProfile)
                           ELSE IF own = {}
                                   THEN req[r].res = NotFoundBody
                                   ELSE /\ req[r].res.status = 200
                                        /\ req[r].res.profile =
                                             {ProfileView(row, TRUE) : row \in own}
                                        /\ Cardinality(req[r].res.profile) = 1

\* Principal A reads A's own row while B has a row too.
C10_Witness ==
    /\ req["r1"].route = GetProfile
    /\ req["r1"].user = "A"
    /\ req["r1"].res.status = 200
    /\ \E p \in req["r1"].res.profile : p.userId = "A" /\ p.skillLevel = "x"
    /\ SelectByUser(table, "B") # {}


\* The request has passed the limiters and is at, or has been answered by,
\* the auth handler.
ReachedAuthHandler(q) ==
    \/ q.pc = "auth" /\ q.sent = 0
    \/ q.pc = "done" /\ q.handlerRuns = 1 /\ q.sent = 1 /\ q.res.status # 429

\* The request was answered by the strict limiter and by nothing else.
RefusedByStrictLimiter(q) ==
    /\ q.pc = "done" /\ q.sent = 1 /\ q.handlerRuns = 0
    /\ q.res = AuthLimitBody
    /\ q.res.status = 429 /\ q.res.retryAfter = "15 minutes"

\* C5 as stated: of the requests an address sends to the sign-in route
\* within one strict window, the first five reach the auth handler and the
\* sixth is answered 429 with the retry hint and does not reach it.
C5_AsStated ==
    \A r \in Slots :
      LET q == req[r]
      IN  q.route = SignIn /\ q.pc \in {"auth", "done"} /\ q.ord > 0 =>
            /\ q.ord <= AuthMax => ReachedAuthHandler(q)
            /\ q.ord = AuthMax + 1 => RefusedByStrictLimiter(q)

\* C5: a request to the sign-in or the sign-up route that the general
\* limiter refuses is answered with the general 429 and never reaches the
\* strict limiter; of the requests to the two routes together that reach
\* the strict limiter from one address within one strict window, the first
\* five reach the auth handler, whatever the credentials, and every later
\* one is answered 429 with the retry hint and does not reach the handler.
C5_StrictLimit ==
    \A r \in Slots :
      LET q == req[r]
      IN  q.route \in {SignIn, SignUp} /\ q.pc \in {"auth", "done"} =>
            /\ q.strictHit = 0 =>
                  /\ q.pc = "done" /\ q.sent = 1 /\ q.handlerRuns = 0
                  /\ q.res = ApiLimitBody
            /\ q.strictHit \in 1..AuthMax => ReachedAuthHandler(q)
            /\ q.strictHit > AuthMax => RefusedByStrictLimiter(q)

\* The sixth sign-in request of a window in which the five before it were
\* admitted is refused by the strict limiter.
C5_Witness ==
    LET q == req["r1"]
    IN  /\ q.route = SignIn /\ q.ip = "ip1"
        /\ q.ord = AuthMax + 1 /\ q.strictHit = AuthMax + 1
        /\ RefusedByStrictLimiter(q)
        /\ authHits["ip1"] = AuthMax + 1

\* C11 as stated: the fourth request an address sends to a password-reset
\* route inside one hour is answered 429 and does not reach the auth
\* handler.
C11_AsStated ==
    \A r \in Slots :
      LET q == req[r]
      IN  (/\ q.route = ForgetPassword
           /\ q.pc \in {"auth", "done"}
           /\ q.ord = ResetMax + 1)
          => /\ q.pc = "done"
             /\ q.handlerRuns = 0
             /\ q.res.status = 429

\* The request has been through the router's limiters.
PastLimiters(q) == q.ip # "" /\ q.pc \notin {"idle", "router"}

\* The request was answered by the general limiter and by nothing else.
RefusedByGeneralLimiter(q) ==
    /\ q.pc = "done" /\ q.sent = 1 /\ q.handlerRuns = 0
    /\ q.res = ApiLimitBody

C13_AsStated ==
    \A r \in Slots :
      LET q == req[r]
      IN  PastLimiters(q)
          => /\ \A t \in q.touched : t[2] = q.ip
             /\ q.route \notin AuthRoutes
                  => \A t \in q.touched : t[1] # "auth"
             /\ q.route \in AuthRoutes
                  => \A t \in q.touched : t[1] # "api"

\* C13, amended: a request changes the counters of its own address only;
\* every request, to an auth route as to a general one, counts against the
\* general limiter; the strict counter changes exactly for a sign-in or
\* sign-up request that the general limiter has let through.
C13_CountersPerAddress ==
    \A r \in Slots :
      LET q == req[r]
      IN  PastLimiters(q)
          => /\ \A t \in q.touched : t[2] = q.ip
             /\ <<"api", q.ip>> \in q.touched
             /\ <<"auth", q.ip>> \in q.touched
                  <=> (q.route \in {SignIn, SignUp} /\ q.res # ApiLimitBody)
             /\ <<"auth", q.ip>> \in q.touched <=> q.strictHit > 0

\* A sign-in of address ip2 counted under ip2 on both limiters while ip1
\* has hits on both.
C13_Witness ==
    LET q == req["r1"]
    IN  /\ q.route = SignIn /\ q.ip = "ip2" /\ q.pc = "auth"
        /\ q.touched = {<<"api", "ip2">>, <<"auth", "ip2">>}
        /\ apiHits["ip1"] = 3 /\ authHits["ip1"] = 2
        /\ apiHits["ip2"] = 1 /\ authHits["ip2"] = 1

Queued == {connQueue[i] : i \in 1..Len(connQueue)}

C15_ConnectionReturned ==
    /\ Queued = {r \in Slots : req[r].pc \in {"select", "upsert"}}
    /\ Len(connQueue) = Cardinality(Queued)
    /\ \A r \in Slots : req[r].pc = "done" => ~HasConnection(r)

\* r1's query was rejected while it ran on the connection; r2's query runs
\* on that connection afterwards.
C15_Witness ==
    /\ req["r1"].pc = "done" /\ req["r1"].res.status = 500
    /\ req["r1"].queries >= 1 /\ req["r1"].heldOnFail
    /\ HasConnection("r2") /\ req["r2"].pc = "select"

\* C16: while DATABASE_URL is absent getPool() throws its configuration
\* error (the handler that called query() logs it and answers 500), no Pool
\* is constructed and none is memoized; once the connection string is set,
\* the next getPool() constructs the one pool and queries run on it.
ConfigurationError == "DATABASE_URL environment variable is required"

FailedOnConfiguration(q) ==
    /\ q.pc = "done" /\ q.res = HandlerErrorBody(q.route)
    /\ \E e \in q.log : e.level = "error" /\ e.detail = ConfigurationError

RequiredKeys ==
    {"DATABASE_URL", "BETTER_AUTH_SECRET", "BETTER_AUTH_URL", "FRONTEND_URL"}

Missing(value) == value \in {Undefined, ""}

Malformed(value) ==
    value \in {"mysql://db", "too-short-secret",
               "0123456789abcdef0123456789abcde", "not a url"}

Reported == {boot.errors[i].name : i \in 1..Len(boot.errors)}

C17_AllViolationsReported ==
    boot.pc # "start" =>
      /\ Reported = {k \in RequiredKeys : Missing(env[k]) \/ Malformed(env[k])}
      /\ Len(boot.errors) = Cardinality(Reported)
      /\ \A i \in 1..Len(boot.errors) :
            boot.errors[i].kind =
               IF Missing(env[boot.errors[i].name])
                  THEN "is required" ELSE "is invalid"
      /\ boot.thrown <=> Reported # {}
      /\ boot.pc = IF boot.thrown THEN "exited" ELSE "serving"

\* All four keys violate, two missing and two malformed, and the one error
\* thrown lists the four.
C17_Witness ==
    /\ boot.thrown /\ Len(boot.errors) = 4
    /\ Missing(env.DATABASE_URL) /\ Malformed(env.BETTER_AUTH_SECRET)
    /\ Malformed(env.BETTER_AUTH_URL) /\ Missing(env.FRONTEND_URL)

AnsweredByErrorHandler(q) == q.pc = "done" /\ q.err # NoError

C19_AsStated ==
    \A r \in Slots :
       AnsweredByErrorHandler(req[r]) /\ env.NODE_ENV # "development"
         => /\ req[r].res.message = "An unexpected error occurred"
            /\ req[r].res.stack = Undefined

\* C19: the error handler's response has the generic message and no stack
\* exactly when NODE_ENV is production; under every other value it carries
\* the error's own message and stack.
C19_DetailsHiddenInProductionOnly ==
    \A r \in Slots :
       AnsweredByErrorHandler(req[r]) =>
         IF env.NODE_ENV = "production"
            THEN /\ req[r].res.message = "An unexpected error occurred"
                 /\ req[r].res.stack = Undefined
            ELSE /\ req[r].res.message = req[r].err.message
                 /\ req[r].res.stack = req[r].err.stack

\* A rejected request answered under NODE_ENV=test with the error's stack.
C19_Witness ==
    /\ env.NODE_ENV = "test"
    /\ AnsweredByErrorHandler(req["r1"])
    /\ req["r1"].res.stack = CorsError.stack

\* C20: the 200 response of POST /personalize.  Without a profile row the
\* content comes back as sent.  With a row: under a softwareBackground that
\* contains beginner exactly the whole words concept, method, approach (in
\* any case) are followed by the beginners note; otherwise, under one that
\* contains advanced, exactly the words example and concept are followed by
\* the advanced note; otherwise no word is annotated; at most one tailoring
\* note, chosen by learningGoal, ends the result.  The words of the content
\* are kept in order, two requests with the same content and profile get
\* the same result, and the handler leaves the table as it found it.
BeginnerNote == "(explained for beginners)"
AdvancedNote == "(advanced details)"
AiNote == "*Tailored for AI/ML learners*"
RoboticsNote == "*Tailored for robotics enthusiasts*"
AddedTokens == {BeginnerNote, AdvancedNote, AiNote, RoboticsNote}

BeginnerBackgrounds == {"beginner developer", "advanced beginner"}
AdvancedBackgrounds == {"Advanced engineer"}
AiGoals == {"AI research", "ml for robotics"}
RoboticsGoals == {"robotics"}
BeginnerWords == {"concept", "Concept", "METHOD", "approach"}
AdvancedWords == {"concept", "Concept", "example"}

Personalized(q) ==
    q.pc = "done" /\ q.route = PostPersonalize /\ q.res.status = 200

\* out is content with `note` after exactly the words of `words`, then the
\* tokens of `tail`.
AnnotatedAs(out, content, words, note, tail) ==
    LET body == SubSeq(out, 1, Len(out) - Len(tail))
    IN  /\ Len(out) >= Len(tail)
        /\ SubSeq(out, Len(out) - Len(tail) + 1, Len(out)) = tail
        /\ SelectSeq(body, LAMBDA t : t \notin AddedTokens) = content
        /\ \A i \in 1..Len(body) :
              IF body[i] \in AddedTokens
                 THEN body[i] = note /\ i > 1 /\ body[i - 1] \in words
                 ELSE body[i] \in words
                        <=> (i < Len(body) /\ body[i + 1] = note)

ExpectedTail(goal) ==
    IF goal \in AiGoals THEN <<AiNote>>
    ELSE IF goal \in RoboticsGoals THEN <<RoboticsNote>> ELSE <<>>

C20_PersonalizeByProfile ==
    /\ \A r \in Slots :
          Personalized(req[r]) =>
            LET q == req[r]
                rows == {row \in table : row.userId = q.user}
                out == q.res.content
            IN  /\ q.writes = 0 /\ q.before = q.after /\ q.after = table
                /\ rows = {} => out = q.body.content
                /\ \A row \in rows :
                      LET sw == row.software_background
                          tail == ExpectedTail(row.learning_goal)
                      IN  IF sw \in BeginnerBackgrounds
                             THEN AnnotatedAs(out, q.body.content,
                                              BeginnerWords, BeginnerNote, tail)
                             ELSE IF sw \in AdvancedBackgrounds
                                     THEN AnnotatedAs(out, q.body.content,
                                                      AdvancedWords,
                                                      AdvancedNote, tail)
                                     ELSE out = q.body.content \o tail
    /\ \A r, s \in Slots :
          /\ Personalized(req[r]) /\ Personalized(req[s])
          /\ req[r].user = req[s].user
          /\ req[r].body.content = req[s].body.content
          => req[r].res.content = req[s].res.content

\* A's request under the profile (advanced beginner, ml for robotics): the
\* beginners note after METHOD and after approach, not after example, and
\* the AI/ML note alone at the end.
C20_Witness ==
    /\ Personalized(req["r1"]) /\ req["r1"].user = "A"
    /\ \E row \in table : /\ row.software_background = "advanced beginner"
                          /\ row.learning_goal = "ml for robotics"
    /\ req["r1"].res.content =
          <<"An", "example", "METHOD", BeginnerNote, "approach", BeginnerNote,
            AiNote>>
    /\ Personalized(req["r2"]) /\ req["r2"].user = "B"
    /\ req["r2"].res.content = req["r2"].body.content

\* C21 as stated: at most one Pool instance exists at any time; the route
\* handlers and the sign-up hook reach the database through the shared
\* getPool()/query() alone and construct no Pool of their own.
LivePools ==
    (IF pool # 0 THEN 1 ELSE 0)
    + Cardinality({r \in Slots : req[r].ownPool})

C21_AsStated ==
    /\ LivePools <= 1
    /\ \A r \in Slots : ~req[r].ownPool

\* C22: after any interleaving of profile writes (the PUT upsert and the
\* sign-up hook's upsert), two first writes for the same principal included,
\* the table holds at most one row per principal.
C22_OneRowPerPrincipal ==
    \A p \in Principals : Cardinality({row \in table : row.userId = p}) <= 1

\* A's row exists once: a PUT of A inserted it into the empty table and the
\* hook of A's sign-up then wrote onto the existing row.
C22_Witness ==
    /\ Cardinality({row \in table : row.userId = "A"}) = 1
    /\ \E r, s \in Slots :
          /\ req[r].route = SignUp /\ req[r].writes = 1
          /\ req[r].returned = "A" /\ req[r].before # {}
          /\ req[s].route = PutProfile /\ req[s].writes = 1
          /\ req[s].user = "A" /\ req[s].before = {}

\* C23 as stated: validateEnv() has completed, or has aborted the startup,
\* before any other component is initialised: no pool is constructed (and
\* no auth instance built, no limiter configured) while validateEnv() has
\* not run, and nothing but validateEnv() ends a startup.
C23_AsStated ==
    /\ boot.pc = "start" => pool = 0 /\ poolsConstructed = 0
    /\ boot.pc # "crashed"

\* C24: on a protected route a stage has run for a request only when every
\* earlier stage has run and let it through, in the order CORS check,
\* security headers, request logging, general rate limiter, access guard
\* (session verifier), route handler, database query; a request refused by
\* CORS, by the limiter (429) or by the guard (401) has had no later stage.
PassedCors(q) == "cors" \in q.stages
PassedHeaders(q) == "headers" \in q.stages
PassedLogging(q) == "logging" \in q.stages
Limited(q) == <<"api", q.ip>> \in q.touched
VerifierInvoked(q) == q.verdict # Pending

C24_StagesInOrder ==
    \A r \in Slots :
       LET q == req[r]
       IN  q.route \in ProtectedRoutes =>
             /\ PassedHeaders(q) => PassedCors(q) /\ CorsAllows(q.origin)
             /\ PassedLogging(q) => PassedHeaders(q)
             /\ Limited(q) => PassedLogging(q)
             /\ VerifierInvoked(q) => Limited(q) /\ q.res.status # 429
             /\ q.handlerRuns > 0 =>
                   VerifierInvoked(q) /\ q.verdict.kind = "value"
                   /\ q.res.status # 401
             /\ q.queries > 0 => q.handlerRuns > 0
             /\ q.err = CorsError =>
                   /\ q.stages = {} /\ ~Limited(q) /\ ~VerifierInvoked(q)
                   /\ q.handlerRuns = 0 /\ q.queries = 0
             /\ q.res.status = 429 =>
                   ~VerifierInvoked(q) /\ q.handlerRuns = 0 /\ q.queries = 0
             /\ q.res.status = 401 => q.handlerRuns = 0 /\ q.queries = 0

\* A request with an allowed origin that went through every stage down to
\* its query.
C24_Witness ==
    /\ req["r1"].route = GetProfile /\ req["r1"].queries = 1
    /\ req["r1"].stages = {"cors", "headers", "logging"}
    /\ Limited(req["r1"]) /\ req["r1"].verdict.kind = "value"
    /\ req["r1"].origin = "https://book.example"

\* C25 as stated: once an unhandled rejection or an uncaught exception has
\* been logged, the process is on its way out: the exit timer of the flush
\* delay is pending or the process has exited.
C25_AsStated ==
    boot.log # {} => boot.exitTimer \/ boot.pc = "exited"

\* C25: both conditions are logged by their listener; after an uncaught
\* exception the process eventually exits (the one-second timer), while an
\* unhandled rejection is logged only: it arms no timer and the process goes
\* on serving unless an uncaught exception occurs.
C25_ExitAfterUncaughtExceptionOnly ==
    /\ [](boot.exitTimer \/ boot.pc = "exited"
            => ProcessLog("uncaughtException") \in boot.log)
    /\ (ProcessLog("uncaughtException") \in boot.log ~> boot.pc = "exited")

\* The process exited after an uncaught exception; an unhandled rejection
\* is in its log as well.
C25_Witness ==
    /\ boot.pc = "exited"
    /\ boot.log = {ProcessLog("unhandledRejection"),
                   ProcessLog("uncaughtException")}

\* C26: two PUT /user/profile requests of one principal that supply
\* disjoint sets of fields: once both upserts are executed, in whichever
\* order and however their steps interleave, the principal's row holds the
\* values of both (no lost update).
SuppliedColumns(body) == {c \in Columns : Truthy(Sent(body, c))}

C26_NoLostUpdate ==
    \A r, s \in Slots :
       (/\ r # s
        /\ req[r].route = PutProfile /\ req[s].route = PutProfile
        /\ req[r].writes = 1 /\ req[s].writes = 1
        /\ req[r].user = req[s].user
        /\ SuppliedColumns(req[r].body) \cap SuppliedColumns(req[s].body) = {})
       => /\ Cardinality(SelectByUser(table, req[r].user)) = 1
          /\ \A row \in SelectByUser(table, req[r].user) :
                /\ \A c \in SuppliedColumns(req[r].body) :
                      row[c] = Sent(req[r].body, c)
                /\ \A c \in SuppliedColumns(req[s].body) :
                      row[c] = Sent(req[s].body, c)

\* A's two requests both waited for the connection with no row in the table
\* (two first writes), and the row holds the skill level of the one and the
\* goal of the other.
C26_Witness ==
    /\ req["r1"].user = "A" /\ req["r2"].user = "A"
    /\ req["r1"].body.skillLevel = "advanced"
    /\ req["r2"].body.learningGoal = "robotics"
    /\ req["r1"].writes = 1 /\ req["r2"].writes = 1
    /\ req["r2"].before = {} /\ req["r1"].pc = "select"
    /\ \E row \in table : /\ row.userId = "A"
                          /\ row.skill_level = "advanced"
                          /\ row.learning_goal = "robotics"

\* C28 as stated: the profile of a successful PUT /user/profile response
\* shows, for every field the request supplied, the supplied value.
ViewField(view, c) ==
    CASE c = "skill_level" -> view.skillLevel
      [] c = "software_background" -> view.softwareBackground
      [] c = "hardware_background" -> view.hardwareBackground
      [] c = "learning_goal" -> view.learningGoal

C28_AsStated ==
    \A r \in Slots :
       (req[r].route = PutProfile /\ req[r].pc = "done"
        /\ req[r].res.status = 200)
       => \A view \in req[r].res.profile :
             \A c \in SuppliedColumns(req[r].body) :
                ViewField(view, c) = Sent(req[r].body, c)

\* C29: a profile column that holds a value keeps holding one through every
\* step: no PUT /user/profile, whatever it sends for the field (nothing,
\* null or the empty string), leaves the column null or empty.
HasValue(v) == v # Null /\ v # ""

C29_NeverBackToNull ==
    [][\A row \in table : \A c \in Columns :
          HasValue(row[c])
          => \E kept \in table' : /\ kept.userId = row.userId
                                  /\ HasValue(kept[c])]_vars

\* A PUT that sent skillLevel: "" together with a goal was written onto A's
\* row whose skill level was "advanced", and the row still holds it.
C29_Witness ==
    /\ req["r1"].route = PutProfile /\ req["r1"].user = "A"
    /\ req["r1"].body.skillLevel = ""
    /\ req["r1"].writes = 1
    /\ \E old \in SelectByUser(req["r1"].before, "A") :
          old.skill_level = "advanced"
    /\ \E row \in SelectByUser(table, "A") :
          row.skill_level = "advanced" /\ row.learning_goal = "robotics"

\* C27 as stated: no query() call hands its statement to a pool on which
\* end() has been called, that is, getPool() has returned no such pool to it.
C27_AsStated == \A r \in Slots : ~req[r].usedEnded

\* C30 as stated: two requests that differ only in their headers are given
\* the same set of trusted origins.
C30_AsStated ==
    \A r, s \in Slots :
       (req[r].trusted # {} /\ req[s].trusted # {}
        /\ req[r].route = req[s].route /\ req[r].body = req[s].body)
       => req[r].trusted = req[s].trusted

====
